---- MODULE Spec2Model ----
(***************************************************************************)
(* A model of hn_new.py: the stories table used as a work queue, the pool  *)
(* of content workers with the shared domain rate limiter and the two      *)
(* global renderer gates, the ingestor and the retention cleanup.          *)
(*                                                                         *)
(* Scheduling.  Every task of the program is a coroutine on one asyncio    *)
(* event loop and every Database call is synchronous, so a task runs       *)
(* without interleaving from one suspension point (a sleep, a wait for the *)
(* domain lock, an HTTP call) to the next.  The variable `running` names   *)
(* the task that holds the event loop in the middle of such a block; an    *)
(* action that resumes a suspended task needs running = NoTask, an action  *)
(* that continues a block needs running = the task itself.                 *)
(*                                                                         *)
(* Time.  Wall-clock instants are kept relative to "now", in seconds: a    *)
(* deadline d is stored as max(0, d - now) and a timestamp t as            *)
(* min(DOMAIN_REQUEST_DELAY, now - t).  Tick lets one second pass.         *)
(***************************************************************************)
EXTENDS Integers, Sequences, FiniteSets, Bags, TLC

\* ------------------------------------------------------------- bounds
NumStories == 2        \* story ids 1..NumStories exist on HN
NumWorkers == 2        \* content workers 1..NumWorkers (--workers)
NumUrls == 1           \* distinct article URLs 1..NumUrls
MaxRetryAfter == 1     \* largest Retry-After (seconds) a 429 carries
DayLength == 2         \* seconds from one UTC midnight to the next
MaxDays == 16          \* days the retention clock may advance
MaxRows == 7           \* stories in the store when the listing is paged
MaxLimit == 2          \* largest page limit a client asks for
MaxShuffled == 3       \* stories 1..MaxShuffled carry any time, the others HNTime
MaxLen == 3            \* longest text compressed, longest value decompressed
MonthLength == 31      \* days of a calendar month (every month as long)
MaxMonths == 8         \* the usage clock stops after this many months
BillingDays == 8       \* renderer calls are billed during the first days only
MaxLogged == 3         \* usage-log rows written at most
MaxHours == 8          \* no backup file gets older than this many hours

\* -------------------------------------------------- program constants
MAX_RETRIES == 3
DOMAIN_REQUEST_DELAY == 2
IDLE_CLEANUP_ITERATIONS == 12
FRONT_PAGE_SIZE == 30
CLEANUP_DISMISSED_HOURS == 24
CLEANUP_STORY_DAYS == 14
CLEANUP_CONTENT_CACHE_DAYS == 90
DISMISSED_MARKER_DAYS == 60
USAGE_LOG_DAYS == 180
USAGE_SUMMARY_DAYS == 1080
DEFAULT_LOOKBACK_HOURS == 80
TEASER_LENGTH == 300
\* Clocks count whole days of HoursPerDay hours.
HoursPerDay == 24

Ids == 1..NumStories
Workers == 1..NumWorkers
Urls == 1..NumUrls
NULL_URL == 0           \* a story without url
NULL_RANK == 0          \* front_page_rank IS NULL (ranks start at 1)
NoTask == 0             \* no worker
Lifespan == NumWorkers + 1   \* lifespan's startup code, as a task

\* ------------------------------------------------------------ strings
\* A string is a sequence of characters; SQL NULL / Python None is a value
\* that is no string of the alphabet.
NULL == << "NULL" >>
EMPTY == << >>
HN_TEXT == << "h" >>          \* a self-post body
PAGE == << "p", "p" >>        \* an article the renderer extracted
BLOCK_PAGE == << "b" >>       \* a captcha / blocking page
COMPRESS_PREFIX == << "z", ":" >>

\* base64(zlib.compress(.)) character by character: an injective recoding
\* into an alphabet of its own.
Deflate64(c) ==
  CASE c = "h" -> "H" [] c = "p" -> "P" [] c = "b" -> "B"
    [] c = "z" -> "Z" [] c = ":" -> "C" [] OTHER -> "?"

Inflate64(c) ==
  CASE c = "H" -> "h" [] c = "P" -> "p" [] c = "B" -> "b"
    [] c = "Z" -> "z" [] c = "C" -> ":" [] OTHER -> "!"

Falsy(text) == text = NULL \/ text = EMPTY

StartsWithPrefix(data) ==
  Len(data) >= Len(COMPRESS_PREFIX) /\ SubSeq(data, 1, Len(COMPRESS_PREFIX)) = COMPRESS_PREFIX

\* Faulty variant: the text is stored as it is, without prefix.
compress_content_Raw(text) == text

compress_content(text) ==
  IF Falsy(text) THEN text
  ELSE COMPRESS_PREFIX \o [k \in 1..Len(text) |-> Deflate64(text[k])]

decompress_content(data) ==
  IF Falsy(data) THEN data
  ELSE IF ~StartsWithPrefix(data) THEN data
  ELSE LET body == SubSeq(data, Len(COMPRESS_PREFIX) + 1, Len(data))
           plain == [k \in 1..Len(body) |-> Inflate64(body[k])]
       IN IF \E k \in 1..Len(plain) : plain[k] = "!" THEN data ELSE plain

\* ------------------------------------------------------ stories table
\* str.strip() and the teaser update_content generates from a text:
\* text[:TEASER_LENGTH].strip(), with "..." when the text is longer.
RECURSIVE Strip(_)
Strip(text) ==
  IF text = << >> THEN text
  ELSE IF Head(text) = " " THEN Strip(Tail(text))
  ELSE IF text[Len(text)] = " " THEN Strip(SubSeq(text, 1, Len(text) - 1))
  ELSE text

Teaser(text) ==
  Strip(SubSeq(text, 1, IF Len(text) < TEASER_LENGTH THEN Len(text) ELSE TEASER_LENGTH))
    \o (IF Len(text) > TEASER_LENGTH THEN << ".", ".", "." >> ELSE << >>)

Terminal == {"done", "failed", "blocked", "skipped"}
Statuses == {"pending", "fetching", "retry"} \cup Terminal

\* Article URLs 2k-1 and 2k are on the same site k.
extract_domain(url) == IF url = NULL_URL THEN 0 ELSE (url + 1) \div 2

\* created_at_i of story i on HN, in days: ids 2 and 3 tie, id 1 is older.
HNTime(i) == 1 + (i \div 2)
StartDay == HNTime(NumStories)

\* A row as INSERT INTO stories creates it from the column defaults.
NewRow(story) ==
  [url |-> story.url, domain |-> story.domain, time |-> story.time,
   score |-> story.score, descendants |-> story.descendants,
   content |-> NULL, content_status |-> "pending", content_attempts |-> 0,
   content_source |-> NULL, browser_ms |-> 0, teaser |-> NULL,
   hit_front_page |-> 0, front_page_rank |-> NULL_RANK]

\* Faulty variants of the upsert: INSERT OR REPLACE, which rebuilds an existing
\* row from the column defaults, and an ON CONFLICT clause that also takes the
\* incoming time.
upsert_story_Replace(st, story) ==
  LET row == IF story.url = NULL_URL /\ ~Falsy(story.text)
             THEN [NewRow(story) EXCEPT !.content = compress_content(story.text),
                                        !.content_status = "done",
                                        !.content_source = << "hn_text" >>]
             ELSE NewRow(story)
  IN (story.id :> row) @@ st

upsert_story_TakesTime(st, story) ==
  IF story.id \in DOMAIN st
  THEN [st EXCEPT ![story.id] = [@ EXCEPT !.score = story.score,
                                          !.descendants = story.descendants,
                                          !.time = story.time]]
  ELSE (story.id :> NewRow(story)) @@ st

upsert_story(st, story) ==
  LET id == story.id IN
  IF story.url = NULL_URL /\ ~Falsy(story.text)
  THEN IF id \in DOMAIN st
       THEN [st EXCEPT ![id] =
               [@ EXCEPT !.score = story.score,
                         !.descendants = story.descendants,
                         !.content = IF st[id].content = NULL
                                     THEN compress_content(story.text) ELSE @,
                         !.content_status = IF st[id].content = NULL THEN "done" ELSE @,
                         !.content_source = IF st[id].content = NULL THEN << "hn_text" >> ELSE @]]
       ELSE (id :> [NewRow(story) EXCEPT !.content = compress_content(story.text),
                                         !.content_status = "done",
                                         !.content_source = << "hn_text" >>]) @@ st
  ELSE IF id \in DOMAIN st
       THEN [st EXCEPT ![id] = [@ EXCEPT !.score = story.score,
                                         !.descendants = story.descendants]]
       ELSE (id :> NewRow(story)) @@ st

\* Faulty variants of the claim's WHERE clause: one that also takes a row
\* another worker is fetching, one without the attempts filter, one without
\* the URL filter.
Eligible_AlsoFetching(st, i) ==
  /\ st[i].content_status \in {"pending", "retry", "fetching"}
  /\ st[i].url # NULL_URL
  /\ st[i].content_attempts < MAX_RETRIES

Eligible_AnyAttempts(st, i) ==
  /\ st[i].content_status \in {"pending", "retry"}
  /\ st[i].url # NULL_URL

Eligible_AnyUrl(st, i) ==
  /\ st[i].content_status \in {"pending", "retry"}
  /\ st[i].content_attempts < MAX_RETRIES

\* The WHERE clause of the claim's subquery.
Eligible(st, i) ==
  /\ st[i].content_status \in {"pending", "retry"}
  /\ st[i].url # NULL_URL
  /\ st[i].content_attempts < MAX_RETRIES

\* Faulty variant of the claim's order: ORDER BY time ASC alone.
QueueBefore_TimeOnly(a, b) == a.time < b.time

\* ORDER BY content_attempts ASC, time ASC
QueueBefore(a, b) ==
  \/ a.content_attempts < b.content_attempts
  \/ a.content_attempts = b.content_attempts /\ a.time < b.time

\* The ids LIMIT 1 may pick: the eligible rows no eligible row sorts before.
ClaimCandidates(st) ==
  {i \in DOMAIN st : /\ Eligible(st, i)
                     /\ \A j \in DOMAIN st : Eligible(st, j) => ~QueueBefore(st[j], st[i])}

\* The UPDATE of claim_next_content_job applied to row i.
ClaimRow(st, i) ==
  [st EXCEPT ![i] = [@ EXCEPT !.content_status = "fetching",
                              !.content_attempts = @ + 1]]

complete_content_job(st, id, content, status, source, ms) ==
  IF id \in DOMAIN st
  THEN [st EXCEPT ![id] = [@ EXCEPT !.content = compress_content(content),
                                    !.content_status = status,
                                    !.content_source = source,
                                    !.browser_ms = ms]]
  ELSE st

\* Faulty variant: the job is put back as a fresh, pending one.
retry_content_job_AsPending(st, id) ==
  IF id \in DOMAIN st
  THEN [st EXCEPT ![id] = [@ EXCEPT !.content_status = "pending"]]
  ELSE st

retry_content_job(st, id) ==
  IF id \in DOMAIN st
  THEN [st EXCEPT ![id] = [@ EXCEPT !.content_status = "retry"]]
  ELSE st

\* Faulty variant: a story without URL is marked skipped whatever its status.
SkipNoUrl_AnyStatus(st) ==
  [i \in DOMAIN st |->
     IF st[i].url = NULL_URL
     THEN [st[i] EXCEPT !.content_status = "skipped"] ELSE st[i]]

SkipNoUrl(st) ==
  [i \in DOMAIN st |->
     IF st[i].url = NULL_URL /\ st[i].content_status \notin Terminal
     THEN [st[i] EXCEPT !.content_status = "skipped"] ELSE st[i]]

\* Faulty variant: the rows left in `fetching` are not reset.
ResetFetching_Skipped(st) == st

ResetFetching(st) ==
  [i \in DOMAIN st |->
     IF st[i].content_status = "fetching" /\ st[i].content_attempts < MAX_RETRIES
     THEN [st[i] EXCEPT !.content_status = "retry"] ELSE st[i]]

\* Faulty variant: a story is failed one attempt early.
FailExhausted_Early(st) ==
  [i \in DOMAIN st |->
     IF st[i].content_status \notin Terminal /\ st[i].content_attempts >= MAX_RETRIES - 1
     THEN [st[i] EXCEPT !.content_status = "failed"] ELSE st[i]]

\* Faulty variant: an exhausted story is marked skipped.
FailExhausted_Skipped(st) ==
  [i \in DOMAIN st |->
     IF st[i].content_status \notin Terminal /\ st[i].content_attempts >= MAX_RETRIES
     THEN [st[i] EXCEPT !.content_status = "skipped"] ELSE st[i]]

FailExhausted(st) ==
  [i \in DOMAIN st |->
     IF st[i].content_status \notin Terminal /\ st[i].content_attempts >= MAX_RETRIES
     THEN [st[i] EXCEPT !.content_status = "failed"] ELSE st[i]]

cleanup_stuck_content_jobs(st) == FailExhausted(ResetFetching(SkipNoUrl(st)))

\* total_fixed: the row counts of the three updates, added up. Every row an
\* update matches gets a status it did not have.
Changed(before, after) == Cardinality({i \in DOMAIN before : before[i] # after[i]})

total_fixed(st) ==
  LET skipped == SkipNoUrl(st)
      reset == ResetFetching(skipped)
  IN Changed(st, skipped) + Changed(skipped, reset) + Changed(reset, FailExhausted(reset))

\* SELECT MAX(time) FROM stories, with the falsy result (no row, or 0) as 0.
get_newest_story_time(st) ==
  IF DOMAIN st = {} THEN 0
  ELSE CHOOSE t \in {st[i].time : i \in DOMAIN st} :
         \A i \in DOMAIN st : st[i].time <= t

\* ---------------------------------------------------------------- state
VARIABLES
  stories,             \* table stories: id -> row, for the ids present
  fetched_urls,        \* table fetched_urls: url -> cached content
  usage_log,           \* table usage_log: a bag of rows
  dismissed,           \* table dismissed: story_id -> created_at (day)
  read_later,          \* table read_later: set of story ids
  history,             \* table history: set of story ids
  usage_summary,       \* table usage_summary: month -> totals
  today,               \* the wall clock, in days
  pc,                  \* where each content worker is in its loop
  job,                 \* the job each worker holds (NoJob if none)
  idle_iterations,     \* worker 1's count of consecutive idle loops
  running,             \* the task running between two suspension points
  domain_lock,         \* the worker holding domain_lock (NoTask if free)
  since_last_request,  \* per domain: min(DELAY, now - domain_last_request)
  domain_sleep_left,   \* seconds left of the lock holder's asyncio.sleep
  cf_rate_limit_left,  \* max(0, cf_rate_limit_until - now)
  cf_quota_left,       \* max(0, cf_quota_exceeded_until - now)
  midnight_in,         \* seconds until the next UTC midnight
  fetch_pc,            \* where each ingestion (scheduled, POST /api/fetch) is
  since_time,          \* the checkpoint each running ingestion read
  fetch_status,        \* fetch_status["status"]
  purged,              \* history: the ids cleanup deleted as dismissed stories
  page,                \* the last answer of GET /api/stories, and its request
  codec,               \* a text, the value stored for it, the text read back
  backup_dir,          \* the backups directory: the age in hours of each file
  rotated,             \* history: the directory after the last rotation loop
  migration,           \* migrate_compress_content: position and counters
  reset,               \* how the last run with --reset ended
  feed                 \* the stories the primary source holds, the last pass

dbVars == << stories, fetched_urls, usage_log >>
toolVars == << backup_dir, rotated, migration, reset, feed >>
sideVars == << dismissed, read_later, history, usage_summary, purged, page, codec,
               toolVars >>
workerVars == << pc, job, idle_iterations >>
limiterVars == << domain_lock, since_last_request, domain_sleep_left >>
gateVars == << cf_rate_limit_left, cf_quota_left >>
fetchVars == << fetch_pc, since_time, fetch_status >>
vars == << stories, fetched_urls, usage_log, dismissed, read_later, history,
           usage_summary, today,
           pc, job, idle_iterations, running, domain_lock, since_last_request,
           domain_sleep_left, cf_rate_limit_left, cf_quota_left, midnight_in,
           fetch_pc, since_time, fetch_status, purged, page, codec, backup_dir,
           rotated, migration, reset, feed >>

Domains == {extract_domain(u) : u \in Urls}
Fetchers == {"sched", "api"}
NoJob == [id |-> 0, url |-> NULL_URL, domain |-> 0, content_attempts |-> 0]
CLOUDFLARE == << "cloudflare" >>
NoCodec == [text |-> NULL, stored |-> NULL, loaded |-> NULL]

\* Backup slots, oldest last: (filename, min_age_hours, max_age_hours).
hourly_slots ==
  << [name |-> "backup-1h.db", min_age |-> 0, max_age |-> 2],
     [name |-> "backup-2h.db", min_age |-> 2, max_age |-> 6],
     [name |-> "backup-6h.db", min_age |-> 6, max_age |-> 12],
     [name |-> "backup-12h.db", min_age |-> 12, max_age |-> 24] >>
daily_slots ==
  [i \in 1..7 |-> [name |-> << "backup-", i, "d.db" >>,
                   min_age |-> 24 * i, max_age |-> 24 * (i + 1)]]
weekly_slots ==
  [i \in 1..4 |-> [name |-> << "backup-", i, "w.db" >>,
                   min_age |-> 24 * 7 * i, max_age |-> 24 * 7 * (i + 1)]]
all_slots == hourly_slots \o daily_slots \o weekly_slots

\* A directory gives for every slot, and for backup-new.db (`new`), the age
\* of its file in hours, NoFile when there is none.
NoFile == -1
EmptyDir == [new |-> NoFile, slot |-> [i \in 1..Len(all_slots) |-> NoFile]]

\* Nothing but the database has been used.
NoFeed == [held |-> << >>, pass |-> "none", since |-> 0, now |-> 0]
NoMigration == [pc |-> "off", total |-> 0, migrated |-> 0, errors |-> 0,
                unverifiable |-> {}]
ToolsUnused ==
  /\ backup_dir = EmptyDir
  /\ rotated = EmptyDir
  /\ migration = NoMigration
  /\ reset = "off"
  /\ feed = NoFeed
NoCursor == << >>
NoPage == [limit |-> 0, sort |-> "newest", cursor |-> NoCursor, before |-> {},
           stories |-> << >>, has_more |-> FALSE, next_cursor |-> NULL]

\* The process has just started: no worker has run yet, no gate is set, no
\* request has been served.
Started ==
  /\ today = StartDay
  /\ purged = {}
  /\ page = NoPage
  /\ pc = [w \in Workers |-> "top"]
  /\ job = [w \in Workers |-> NoJob]
  /\ idle_iterations = 0
  /\ domain_lock = NoTask
  /\ since_last_request = [d \in Domains |-> DOMAIN_REQUEST_DELAY]
  /\ domain_sleep_left = 0
  /\ cf_rate_limit_left = 0
  /\ cf_quota_left = 0
  /\ midnight_in = DayLength
  /\ fetch_pc = [f \in Fetchers |-> "idle"]
  /\ since_time = [f \in Fetchers |-> 0]
  /\ fetch_status = "idle"

\* An empty store in a process that has just started.
Init ==
  /\ stories = << >>
  /\ fetched_urls = << >>
  /\ usage_log = EmptyBag
  /\ dismissed = << >>
  /\ read_later = {}
  /\ history = {}
  /\ usage_summary = << >>
  /\ Started
  /\ codec = NoCodec
  /\ ToolsUnused
  /\ running = NoTask

\* ------------------------------------------------------ content worker
\* A worker suspended at the top of its loop (in a sleep) may resume when the
\* event loop is free; one that reached the top by `continue` runs on.
AtTop(w) == pc[w] = "top" /\ running \in {NoTask, w}

\* Faulty variant: the daily-quota deadline is not looked at.
GateActive_RateOnly == cf_rate_limit_left > 0

GateActive == cf_rate_limit_left > 0 \/ cf_quota_left > 0

\* if cf_rate_limit_until > now: sleep; continue (and the same for the quota)
WorkerGateSleep(w) ==
  /\ AtTop(w)
  /\ GateActive
  /\ running' = NoTask
  /\ UNCHANGED << dbVars, sideVars, today, workerVars, limiterVars, gateVars,
                  midnight_in, fetchVars >>

\* job = db.claim_next_content_job(): a row is claimed
WorkerClaim(w) ==
  /\ AtTop(w)
  /\ ~GateActive
  /\ \E i \in ClaimCandidates(stories) :
       /\ stories' = ClaimRow(stories, i)
       /\ job' = [job EXCEPT ![w] =
                    [id |-> i, url |-> stories[i].url, domain |-> stories[i].domain,
                     content_attempts |-> stories[i].content_attempts + 1]]
  /\ idle_iterations' = IF w = 1 THEN 0 ELSE idle_iterations
  /\ pc' = [pc EXCEPT ![w] = "claimed"]
  /\ running' = w
  /\ UNCHANGED << fetched_urls, usage_log, sideVars, today, limiterVars, gateVars,
                  midnight_in, fetchVars >>

\* job = db.claim_next_content_job(): no row is eligible, None is returned
WorkerClaimNone(w) ==
  /\ AtTop(w)
  /\ ~GateActive
  /\ ClaimCandidates(stories) = {}
  /\ pc' = [pc EXCEPT ![w] = "idle"]
  /\ running' = w
  /\ UNCHANGED << dbVars, sideVars, today, job, idle_iterations, limiterVars,
                  gateVars, midnight_in, fetchVars >>

\* if not job: count the idle loop, worker 1 cleans up every 12th, sleep 5 s.
\* Only worker 1 reads its counter, so only worker 1's is kept.
WorkerIdle(w) ==
  /\ pc[w] = "idle" /\ running = w
  /\ IF w = 1 /\ idle_iterations + 1 >= IDLE_CLEANUP_ITERATIONS
     THEN /\ idle_iterations' = 0
          /\ stories' = cleanup_stuck_content_jobs(stories)
     ELSE /\ idle_iterations' = IF w = 1 THEN idle_iterations + 1 ELSE idle_iterations
          /\ UNCHANGED stories
  /\ pc' = [pc EXCEPT ![w] = "top"]
  /\ running' = NoTask
  /\ UNCHANGED << fetched_urls, usage_log, sideVars, today, job, limiterVars,
                  gateVars, midnight_in, fetchVars >>

\* Faulty variant: the cache hit is recorded as a request to the domain.
WorkerCacheHit_Throttled(w) ==
  /\ pc[w] = "claimed" /\ running = w
  /\ job[w].url \in DOMAIN fetched_urls
  /\ LET cached == fetched_urls[job[w].url] IN
       stories' = complete_content_job(stories, job[w].id, cached.content, "done",
                                       cached.source, cached.browser_ms)
  /\ since_last_request' = [since_last_request EXCEPT ![job[w].domain] = 0]
  /\ job' = [job EXCEPT ![w] = NoJob]
  /\ pc' = [pc EXCEPT ![w] = "top"]
  /\ UNCHANGED << fetched_urls, usage_log, sideVars, today, idle_iterations, running,
                  domain_lock, domain_sleep_left, gateVars, midnight_in, fetchVars >>

\* cached = db.get_cached_content(url); if cached: complete the job; continue
WorkerCacheHit(w) ==
  /\ pc[w] = "claimed" /\ running = w
  /\ job[w].url \in DOMAIN fetched_urls
  /\ LET cached == fetched_urls[job[w].url] IN
       stories' = complete_content_job(stories, job[w].id, cached.content, "done",
                                       cached.source, cached.browser_ms)
  /\ job' = [job EXCEPT ![w] = NoJob]
  /\ pc' = [pc EXCEPT ![w] = "top"]
  /\ UNCHANGED << fetched_urls, usage_log, sideVars, today, idle_iterations, running,
                  limiterVars, gateVars, midnight_in, fetchVars >>

\* Faulty variant of the limiter: the request is recorded without waiting.
EnterDomainLock_NoWait(w) ==
  /\ since_last_request' = [since_last_request EXCEPT ![job[w].domain] = 0]
  /\ pc' = [pc EXCEPT ![w] = "call"]
  /\ running' = w
  /\ UNCHANGED << domain_lock, domain_sleep_left >>

\* The body of wait_for_domain_rate_limit once domain_lock is taken: either
\* sleep wait_time holding the lock, or record the request and go on.
EnterDomainLock(w) ==
  LET d == job[w].domain
      wait_time == DOMAIN_REQUEST_DELAY - since_last_request[d]
  IN IF wait_time > 0
     THEN /\ domain_lock' = w
          /\ domain_sleep_left' = wait_time
          /\ pc' = [pc EXCEPT ![w] = "domsleep"]
          /\ running' = NoTask
          /\ UNCHANGED since_last_request
     ELSE /\ since_last_request' = [since_last_request EXCEPT ![d] = 0]
          /\ pc' = [pc EXCEPT ![w] = "call"]
          /\ running' = w
          /\ UNCHANGED << domain_lock, domain_sleep_left >>

\* cache miss: await wait_for_domain_rate_limit(domain)
WorkerCacheMiss(w) ==
  /\ pc[w] = "claimed" /\ running = w
  /\ job[w].url \notin DOMAIN fetched_urls
  /\ IF domain_lock = NoTask
     THEN EnterDomainLock(w)
     ELSE /\ pc' = [pc EXCEPT ![w] = "lockwait"]
          /\ running' = NoTask
          /\ UNCHANGED limiterVars
  /\ UNCHANGED << dbVars, sideVars, today, job, idle_iterations, gateVars,
                  midnight_in, fetchVars >>

\* a worker waiting in `async with domain_lock` gets the lock
WorkerLockAcquired(w) ==
  /\ pc[w] = "lockwait" /\ running = NoTask
  /\ domain_lock = NoTask
  /\ EnterDomainLock(w)
  /\ UNCHANGED << dbVars, sideVars, today, job, idle_iterations, gateVars,
                  midnight_in, fetchVars >>

\* asyncio.sleep(wait_time) is over: domain_last_request[domain] = time.time()
WorkerDomainWake(w) ==
  /\ pc[w] = "domsleep" /\ running = NoTask
  /\ domain_lock = w
  /\ domain_sleep_left = 0
  /\ since_last_request' = [since_last_request EXCEPT ![job[w].domain] = 0]
  /\ domain_lock' = NoTask
  /\ pc' = [pc EXCEPT ![w] = "call"]
  /\ running' = w
  /\ UNCHANGED << dbVars, sideVars, today, job, idle_iterations, domain_sleep_left,
                  gateVars, midnight_in, fetchVars >>

\* fetch_content_cloudflare while the quota gate is set: quota_exceeded without
\* a request; the worker puts the job back and sleeps 60 s.
WorkerCallQuota(w) ==
  /\ pc[w] = "call" /\ running = w
  /\ cf_quota_left > 0
  /\ stories' = retry_content_job(stories, job[w].id)
  /\ job' = [job EXCEPT ![w] = NoJob]
  /\ pc' = [pc EXCEPT ![w] = "top"]
  /\ running' = NoTask
  /\ UNCHANGED << fetched_urls, usage_log, sideVars, today, idle_iterations,
                  limiterVars, gateVars, midnight_in, fetchVars >>

\* fetch_content_cloudflare: the POST to the renderer is sent
WorkerCallSend(w) ==
  /\ pc[w] = "call" /\ running = w
  /\ cf_quota_left = 0
  /\ pc' = [pc EXCEPT ![w] = "fetch"]
  /\ running' = NoTask
  /\ UNCHANGED << dbVars, sideVars, today, job, idle_iterations, limiterVars,
                  gateVars, midnight_in, fetchVars >>

\* What fetch_content_cloudflare can return once the renderer has answered.
\* retry_after is the Retry-After header of a 429, billed the values the
\* X-Browser-Ms-Used header may carry.
Results(billed) ==
  {[status |-> "done", content |-> PAGE, browser_ms |-> ms, retry_after |-> 0] : ms \in billed}
  \cup {[status |-> "blocked", content |-> BLOCK_PAGE, browser_ms |-> ms, retry_after |-> 0] : ms \in billed}
  \cup {[status |-> s, content |-> NULL, browser_ms |-> 0, retry_after |-> 0] :
          s \in {"failed", "timeout", "quota_exceeded"}}
  \cup {[status |-> "rate_limited", content |-> NULL, browser_ms |-> 0, retry_after |-> ra] :
          ra \in 1..MaxRetryAfter}

cache_content(cache, url, content, source, ms, day) ==
  (url :> [content |-> content, source |-> source, browser_ms |-> ms, fetched_at |-> day])
    @@ [u \in DOMAIN cache \ {url} |-> cache[u]]

log_usage(log, story_id, url, ms, source, day) ==
  log (+) SetToBag({[story_id |-> story_id, url |-> url, browser_ms |-> ms,
                     source |-> source, created_at |-> day]})

\* The renderer answers: fetch_content_cloudflare builds the result (and sets
\* the quota deadline on a daily-quota 429), then the worker finalizes the job.
WorkerResponse(w, r) ==
  /\ pc[w] = "fetch" /\ running = NoTask
  /\ LET id == job[w].id
         url == job[w].url
         attempts == job[w].content_attempts
     IN
     CASE r.status = "done" ->
            /\ fetched_urls' = cache_content(fetched_urls, url, r.content, CLOUDFLARE,
                                             r.browser_ms, today)
            /\ stories' = complete_content_job(stories, id, r.content, "done",
                                               CLOUDFLARE, r.browser_ms)
            /\ usage_log' = log_usage(usage_log, id, url, r.browser_ms, CLOUDFLARE, today)
            /\ UNCHANGED gateVars
       [] r.status = "blocked" ->
            /\ IF attempts >= MAX_RETRIES
               THEN /\ stories' = complete_content_job(stories, id, r.content, "blocked",
                                                       CLOUDFLARE, r.browser_ms)
                    /\ usage_log' = IF r.browser_ms > 0
                                    THEN log_usage(usage_log, id, url, r.browser_ms,
                                                   CLOUDFLARE, today)
                                    ELSE usage_log
               ELSE /\ stories' = retry_content_job(stories, id)
                    /\ UNCHANGED usage_log
            /\ UNCHANGED << fetched_urls, gateVars >>
       [] r.status \in {"timeout", "failed"} ->
            /\ stories' = IF attempts >= MAX_RETRIES
                          THEN complete_content_job(stories, id, EMPTY, "failed",
                                                    CLOUDFLARE, 0)
                          ELSE retry_content_job(stories, id)
            /\ UNCHANGED << fetched_urls, usage_log, gateVars >>
       [] r.status = "quota_exceeded" ->
            /\ cf_quota_left' = midnight_in
            /\ stories' = retry_content_job(stories, id)
            /\ UNCHANGED << fetched_urls, usage_log, cf_rate_limit_left >>
       [] r.status = "rate_limited" ->
            /\ stories' = retry_content_job(stories, id)
            /\ cf_rate_limit_left' = r.retry_after
            /\ UNCHANGED << fetched_urls, usage_log, cf_quota_left >>
  /\ job' = [job EXCEPT ![w] = NoJob]
  /\ pc' = [pc EXCEPT ![w] = "top"]
  /\ running' = IF r.status = "quota_exceeded" THEN NoTask ELSE w
  /\ UNCHANGED << sideVars, today, idle_iterations, limiterVars, midnight_in, fetchVars >>

Dec(n) == IF n > 0 THEN n - 1 ELSE 0

\* One second passes while every task is suspended.
Tick ==
  /\ running = NoTask
  /\ since_last_request' =
       [d \in Domains |-> IF since_last_request[d] < DOMAIN_REQUEST_DELAY
                          THEN since_last_request[d] + 1 ELSE since_last_request[d]]
  /\ domain_sleep_left' = Dec(domain_sleep_left)
  /\ cf_rate_limit_left' = Dec(cf_rate_limit_left)
  /\ cf_quota_left' = Dec(cf_quota_left)
  /\ midnight_in' = IF midnight_in = 1 THEN DayLength ELSE midnight_in - 1
  /\ UNCHANGED << dbVars, sideVars, today, workerVars, running, domain_lock, fetchVars >>

\* The except clause of content_worker: the job is failed or put back, and an
\* exception of that write is swallowed (`written` tells whether it went
\* through). A database call that raises has written nothing.
HandleUnexpected(st, j, written) ==
  IF ~written THEN st
  ELSE IF j.content_attempts >= MAX_RETRIES
       THEN complete_content_job(st, j.id, EMPTY, "failed", NULL, 0)
       ELSE retry_content_job(st, j.id)

\* db.get_cached_content(url) raises
WorkerLookupRaises(w, written) ==
  /\ pc[w] = "claimed" /\ running = w
  /\ stories' = HandleUnexpected(stories, job[w], written)
  /\ job' = [job EXCEPT ![w] = NoJob]
  /\ pc' = [pc EXCEPT ![w] = "top"]
  /\ UNCHANGED << fetched_urls, usage_log, sideVars, today, idle_iterations, running,
                  limiterVars, gateVars, midnight_in, fetchVars >>

\* The database calls a result makes the worker issue, in their order.
FinalWrites(r, attempts) ==
  CASE r.status = "done" -> << "cache_content", "complete_content_job", "log_usage" >>
    [] r.status = "blocked" /\ attempts >= MAX_RETRIES /\ r.browser_ms > 0 ->
         << "complete_content_job", "log_usage" >>
    [] r.status \in {"blocked", "timeout", "failed"} /\ attempts >= MAX_RETRIES ->
         << "complete_content_job" >>
    [] OTHER -> << "retry_content_job" >>

\* The renderer answers and the worker finalizes the job, but the database
\* call number `raising` of the branch raises: the calls before it have
\* written, the rest of the branch is skipped (a rate-limit deadline is not
\* set), and the except clause takes over.
WorkerFinalizeRaises(w, r, raising, written) ==
  /\ pc[w] = "fetch" /\ running = NoTask
  /\ raising \in 1..Len(FinalWrites(r, job[w].content_attempts))
  /\ LET id == job[w].id
         before == SubSeq(FinalWrites(r, job[w].content_attempts), 1, raising - 1)
         did(call) == \E k \in 1..Len(before) : before[k] = call
         status == IF r.status = "done" THEN "done" ELSE "blocked"
         completed == IF did("complete_content_job")
                      THEN complete_content_job(stories, id, r.content, status,
                                                CLOUDFLARE, r.browser_ms)
                      ELSE stories
     IN /\ fetched_urls' = IF did("cache_content")
                           THEN cache_content(fetched_urls, job[w].url, r.content,
                                              CLOUDFLARE, r.browser_ms, today)
                           ELSE fetched_urls
        /\ stories' = HandleUnexpected(completed, job[w], written)
  /\ cf_quota_left' = IF r.status = "quota_exceeded" THEN midnight_in ELSE cf_quota_left
  /\ job' = [job EXCEPT ![w] = NoJob]
  /\ pc' = [pc EXCEPT ![w] = "top"]
  /\ running' = w
  /\ UNCHANGED << usage_log, sideVars, today, idle_iterations, limiterVars,
                  cf_rate_limit_left, midnight_in, fetchVars >>

\* ------------------------------------------------------------ ingestor
\* What the source says about one story: its URL (or none), its self-post
\* text (or none; only a story without URL carries one), how far its time is
\* from HNTime, its score and its comment count.
Shapes(scores, comments, skews) ==
  {sh \in [url : {NULL_URL} \cup Urls, text : {NULL, HN_TEXT}, skew : skews,
           score : scores, descendants : comments] :
     sh.url # NULL_URL => sh.text = NULL}

\* The story dict parse_algolia_story / fetch_story_by_id builds for id i.
StoryDict(i, sh) ==
  [id |-> i, url |-> sh.url, text |-> sh.text, domain |-> extract_domain(sh.url),
   time |-> HNTime(i) + sh.skew, score |-> sh.score, descendants |-> sh.descendants]

\* for story in sorted batch: db.upsert_story(story)
RECURSIVE UpsertAll(_, _)
UpsertAll(st, batch) ==
  IF batch = {} THEN st
  ELSE LET story == CHOOSE x \in batch : \A y \in batch : x.time <= y.time
       IN UpsertAll(upsert_story(st, story), batch \ {story})

\* The rows a loop over the batch sorted by time has written when it is
\* interrupted: a prefix of the sorted batch.
WritePrefixes(batch) ==
  {done \in SUBSET batch : \A a \in done, b \in batch \ done : a.time <= b.time}

\* since_time of fetch_new_stories on `day`: the checkpoint, or the lookback
\* when there is none, in whole days (story times are whole days).
SinceTime(st, day) ==
  IF get_newest_story_time(st) # 0 THEN get_newest_story_time(st)
  ELSE (day * HoursPerDay - DEFAULT_LOOKBACK_HOURS) \div HoursPerDay

\* fetch_new_stories up to the first request: the checkpoint is read.
\* POST /api/fetch refuses while fetch_status says a fetch is running.
FetchBegin(f) ==
  /\ running = NoTask
  /\ fetch_pc[f] = "idle"
  /\ f = "api" => fetch_status # "fetching"
  /\ since_time' = [since_time EXCEPT ![f] = SinceTime(stories, today)]
  /\ fetch_pc' = [fetch_pc EXCEPT ![f] = "http"]
  /\ fetch_status' = IF f = "api" THEN "fetching" ELSE fetch_status
  /\ UNCHANGED << dbVars, sideVars, today, workerVars, running, limiterVars,
                  gateVars, midnight_in >>

\* The source has answered with a batch of stories newer than the checkpoint
\* (one dict per id, of the ids `known` to the source); the batch is sorted by
\* time and upserted row by row, possibly interrupted by an exception after a
\* prefix.
FetchWrite(f, known, shapes) ==
  /\ running = NoTask
  /\ fetch_pc[f] = "http"
  /\ \E ids \in SUBSET known :
       \E pick \in [ids -> shapes] :
         LET batch == {StoryDict(i, pick[i]) : i \in ids} IN
         /\ \A x \in batch : x.time > since_time[f]
         /\ \E done \in WritePrefixes(batch) :
              /\ stories' = UpsertAll(stories, done)
              /\ fetch_status' = IF f = "api"
                                 THEN (IF done = batch THEN "done" ELSE "error")
                                 ELSE fetch_status
  /\ fetch_pc' = [fetch_pc EXCEPT ![f] = "idle"]
  /\ since_time' = [since_time EXCEPT ![f] = 0]
  /\ UNCHANGED << fetched_urls, usage_log, sideVars, today, workerVars, running,
                  limiterVars, gateVars, midnight_in >>

\* --------------------------------------------------- front page tracker
\* Faulty variant: the rank of the latest poll replaces the stored one.
MarkFrontPage_Latest(st, id, rank) ==
  IF id \in DOMAIN st
  THEN [st EXCEPT ![id] = [@ EXCEPT !.hit_front_page = 1, !.front_page_rank = rank]]
  ELSE st

\* The UPDATE of update_front_page_stories for one entry of topstories.
MarkFrontPage(st, id, rank) ==
  IF id \in DOMAIN st
     /\ (st[id].hit_front_page = 0 \/ st[id].front_page_rank = NULL_RANK
           \/ st[id].front_page_rank > rank)
  THEN [st EXCEPT ![id] =
          [@ EXCEPT !.hit_front_page = 1,
                    !.front_page_rank = IF @ = NULL_RANK \/ rank < @ THEN rank ELSE @]]
  ELSE st

\* for rank, story_id in enumerate(top_story_ids[:30], start=1)
RECURSIVE MarkAll(_, _, _)
MarkAll(st, top_story_ids, rank) ==
  IF rank > Len(top_story_ids) \/ rank > FRONT_PAGE_SIZE THEN st
  ELSE MarkAll(MarkFrontPage(st, top_story_ids[rank], rank), top_story_ids, rank + 1)

update_front_page_stories(st, top_story_ids) ==
  IF top_story_ids = << >> THEN st ELSE MarkAll(st, top_story_ids, 1)

\* topstories as the tracker may see it: the ids in some order, no id twice.
TopLists(known) ==
  {t \in UNION {[1..n -> known] : n \in 0..Cardinality(known)} :
     \A a, b \in DOMAIN t : a # b => t[a] # t[b]}

\* topstories with other stories ahead: none, enough to leave the front
\* page's last place to the first known id, or a full front page of them.
Ahead(n) == [k \in 1..n |-> NumStories + k]
DeepLists(known) ==
  {Ahead(n) \o t : n \in {0, FRONT_PAGE_SIZE - 1, FRONT_PAGE_SIZE}, t \in TopLists(known)}

\* One poll of front_page_tracker, topstories being any of the lists `tops`.
FrontPagePollOf(tops) ==
  /\ running = NoTask
  /\ \E t \in tops : stories' = update_front_page_stories(stories, t)
  /\ UNCHANGED << fetched_urls, usage_log, sideVars, today, workerVars, running,
                  limiterVars, gateVars, midnight_in, fetchVars >>

\* One poll of front_page_tracker.
FrontPagePoll(known) ==
  /\ running = NoTask
  /\ \E t \in TopLists(known) : stories' = update_front_page_stories(stories, t)
  /\ UNCHANGED << fetched_urls, usage_log, sideVars, today, workerVars, running,
                  limiterVars, gateVars, midnight_in, fetchVars >>

\* ------------------------------------------------- user actions, retention
\* The wall clock `today` counts days; a row's CURRENT_TIMESTAMP is the day it
\* was written.

Restrict(f, keep) == [x \in DOMAIN f \cap keep |-> f[x]]

\* INSERT OR IGNORE INTO dismissed (story_id): the id need not be a story.
dismiss_story(dis, story_id, day) ==
  IF story_id \in DOMAIN dis THEN dis ELSE (story_id :> day) @@ dis

DismissStory(i) ==
  /\ running = NoTask
  /\ dismissed' = dismiss_story(dismissed, i, today)
  /\ UNCHANGED << dbVars, read_later, history, usage_summary, purged, page, codec,
                  toolVars,
                  today,
                  workerVars, running, limiterVars, gateVars, midnight_in, fetchVars >>

\* INSERT OR IGNORE INTO read_later: story_id REFERENCES stories(id) with
\* foreign keys on, so only an existing story can be added.
AddReadLater(i) ==
  /\ running = NoTask
  /\ i \in DOMAIN stories
  /\ read_later' = read_later \cup {i}
  /\ UNCHANGED << dbVars, dismissed, history, usage_summary, purged, page, codec,
                  toolVars,
                  today,
                  workerVars, running, limiterVars, gateVars, midnight_in, fetchVars >>

\* INSERT OR REPLACE INTO history: story_id REFERENCES stories(id) with
\* foreign keys on, so only an existing story can be recorded as opened.
OpenStory(i) ==
  /\ running = NoTask
  /\ i \in DOMAIN stories
  /\ history' = history \cup {i}
  /\ UNCHANGED << dbVars, dismissed, read_later, usage_summary, purged, page, codec,
                  toolVars,
                  today,
                  workerVars, running, limiterVars, gateVars, midnight_in, fetchVars >>

\* Faulty variant: a saved story does not escape the age limit.
old_ids_Saved(st, dis, later, day) ==
  {i \in DOMAIN st : st[i].time < day - CLEANUP_STORY_DAYS /\ i \notin DOMAIN dis}

\* The stories cleanup_stories deletes: dismissed past the grace period, or
\* older than the maximum age and neither saved nor dismissed.
dismissed_ids(st, dis, day) ==
  {i \in DOMAIN st \cap DOMAIN dis :
     dis[i] * HoursPerDay < day * HoursPerDay - CLEANUP_DISMISSED_HOURS}

old_ids(st, dis, later, day) ==
  {i \in DOMAIN st : /\ st[i].time < day - CLEANUP_STORY_DAYS
                     /\ i \notin later
                     /\ i \notin DOMAIN dis}

\* The dismissed table after a pass: the rows of the deleted stories go with
\* the other child rows, then the markers past DISMISSED_MARKER_DAYS.
CleanDismissed(dis, gone, day) ==
  LET kept == Restrict(dis, DOMAIN dis \ gone)
  IN Restrict(kept, {i \in DOMAIN kept : ~(kept[i] < day - DISMISSED_MARKER_DAYS)})

\* strftime('%Y-%m'), months numbered from the month of day 0
MonthOf(day) == day \div MonthLength

\* now.replace(day=1, ...): the first day of the month of `day`
MonthStart(day) == MonthOf(day) * MonthLength

RECURSIVE SumMs(_, _)
SumMs(log, rows) ==
  IF rows = {} THEN 0
  ELSE LET r == CHOOSE x \in rows : TRUE
       IN r.browser_ms * CopiesIn(r, log) + SumMs(log, rows \ {r})

RECURSIVE CountRows(_, _)
CountRows(log, rows) ==
  IF rows = {} THEN 0
  ELSE LET r == CHOOSE x \in rows : TRUE
       IN CopiesIn(r, log) + CountRows(log, rows \ {r})

\* Faulty variant: ON CONFLICT(month) the excluded totals replace the row's.
Summarize_Replace(summary, log, day) ==
  LET month_start == MonthStart(day)
      old == {r \in BagToSet(log) : r.created_at < month_start - USAGE_LOG_DAYS}
      months == {MonthOf(r.created_at) : r \in old}
      rowsOf(m) == {r \in old : MonthOf(r.created_at) = m}
      merged == [m \in DOMAIN summary \cup months |->
                   IF m \in months
                   THEN [request_count |-> CountRows(log, rowsOf(m)),
                         total_browser_ms |-> SumMs(log, rowsOf(m))]
                   ELSE summary[m]]
  IN Restrict(merged, {m \in DOMAIN merged :
                         ~(m < MonthOf(month_start - USAGE_SUMMARY_DAYS))})

\* INSERT INTO usage_summary ... GROUP BY month ON CONFLICT(month) DO UPDATE,
\* then the summaries older than USAGE_SUMMARY_DAYS are deleted.
Summarize(summary, log, day) ==
  LET month_start == MonthStart(day)
      old == {r \in BagToSet(log) : r.created_at < month_start - USAGE_LOG_DAYS}
      months == {MonthOf(r.created_at) : r \in old}
      rowsOf(m) == {r \in old : MonthOf(r.created_at) = m}
      merged == [m \in DOMAIN summary \cup months |->
                   LET before == IF m \in DOMAIN summary THEN summary[m]
                                 ELSE [request_count |-> 0, total_browser_ms |-> 0]
                   IN [request_count |-> before.request_count + CountRows(log, rowsOf(m)),
                       total_browser_ms |-> before.total_browser_ms + SumMs(log, rowsOf(m))]]
  IN Restrict(merged, {m \in DOMAIN merged :
                         ~(m < MonthOf(month_start - USAGE_SUMMARY_DAYS))})

\* DELETE FROM usage_log WHERE created_at < the cutoff
TrimUsageLog(log, day) ==
  LET month_start == MonthStart(day)
      keep == {r \in BagToSet(log) : ~(r.created_at < month_start - USAGE_LOG_DAYS)}
  IN [r \in keep |-> log[r]]

\* One pass of Database.cleanup_stories, as story_cleanup runs it.
cleanup_stories ==
  LET gone == dismissed_ids(stories, dismissed, today)
                \cup old_ids(stories, dismissed, read_later, today)
  IN /\ running = NoTask
     /\ history' = history \ gone
     /\ read_later' = read_later \ gone
     /\ dismissed' = CleanDismissed(dismissed, gone, today)
     /\ stories' = Restrict(stories, DOMAIN stories \ gone)
     /\ fetched_urls' = Restrict(fetched_urls,
                          {u \in DOMAIN fetched_urls :
                             ~(fetched_urls[u].fetched_at < today - CLEANUP_CONTENT_CACHE_DAYS)})
     /\ usage_summary' = Summarize(usage_summary, usage_log, today)
     /\ usage_log' = TrimUsageLog(usage_log, today)
     /\ purged' = purged \cup dismissed_ids(stories, dismissed, today)
     /\ UNCHANGED << page, codec, toolVars, today, workerVars, running, limiterVars, gateVars, midnight_in,
                     fetchVars >>

\* ---------------------------------------------------------------- backups
\* One round of the rotation loop, for slot i: a file past the slot's max age
\* is copied over the next slot's and unlinked, or unlinked in the last slot.
RotateSlot(files, i) ==
  IF files[i] = NoFile THEN files
  ELSE IF files[i] > all_slots[i].max_age
       THEN IF i < Len(all_slots)
            THEN [files EXCEPT ![i + 1] = files[i], ![i] = NoFile]
            ELSE [files EXCEPT ![i] = NoFile]
       ELSE files

\* for i in range(len(all_slots) - 1, -1, -1)
RECURSIVE RotateFrom(_, _)
RotateFrom(files, i) ==
  IF i = 0 THEN files ELSE RotateFrom(RotateSlot(files, i), i - 1)

\* Move new backup to 1h slot: a 1h backup at least one hour old is copied
\* over the 2h slot's file first, then unlinked; backup-new.db is renamed.
PlaceNew(dir) ==
  LET age == dir.slot[1]
      moved == IF age # NoFile /\ age # 0 /\ age >= 1
               THEN [dir.slot EXCEPT ![2] = age] ELSE dir.slot
  IN [new |-> NoFile, slot |-> [moved EXCEPT ![1] = dir.new]]

\* Database.backup_rotate: the online backup into backup-new.db succeeds, the
\* slots are rotated and the new backup takes the 1h slot; or it fails, None
\* is returned and what was written of backup-new.db stays.
backup_rotate(ok, partial) ==
  /\ running = NoTask
  /\ IF ok
     THEN /\ rotated' = [new |-> 0, slot |-> RotateFrom(backup_dir.slot, Len(all_slots))]
          /\ backup_dir' = PlaceNew(rotated')
     ELSE /\ backup_dir' = [backup_dir EXCEPT !.new = IF partial THEN 0 ELSE @]
          /\ UNCHANGED rotated
  /\ UNCHANGED << dbVars, dismissed, read_later, history, usage_summary, purged, page,
                  codec, migration, reset, feed, today, workerVars, running, limiterVars, gateVars,
                  midnight_in, fetchVars >>

\* An hour passes: every file is an hour older (no file older than `hours`).
HourPasses(hours) ==
  LET older(age) == IF age = NoFile THEN NoFile ELSE age + 1
      ages == {backup_dir.new} \cup {backup_dir.slot[i] : i \in 1..Len(all_slots)}
  IN /\ running = NoTask
     /\ \A age \in ages : age < hours
     /\ backup_dir' = [new |-> older(backup_dir.new),
                       slot |-> [i \in 1..Len(all_slots) |-> older(backup_dir.slot[i])]]
     /\ UNCHANGED << dbVars, dismissed, read_later, history, usage_summary, purged,
                     page, codec, rotated, migration, reset, feed, today, workerVars, running,
                     limiterVars,
                     gateVars, midnight_in, fetchVars >>

\* Midnight, on a clock that runs for `days` days.
DayPassesUntil(days) ==
  /\ running = NoTask
  /\ today < days
  /\ today' = today + 1
  /\ UNCHANGED << dbVars, sideVars, workerVars, running, limiterVars, gateVars,
                  midnight_in, fetchVars >>

\* db.log_usage(story_id, url, browser_ms, source) for a renderer call billed
\* ms, as long as the renderer is in use.
LogUsage(ms) ==
  /\ running = NoTask
  /\ today < BillingDays
  /\ BagCardinality(usage_log) < MaxLogged
  /\ usage_log' = log_usage(usage_log, 1, 1, ms, CLOUDFLARE, today)
  /\ UNCHANGED << stories, fetched_urls, sideVars, today, workerVars, running,
                  limiterVars, gateVars, midnight_in, fetchVars >>

\* Midnight: the next day begins.
DayPasses ==
  /\ running = NoTask
  /\ today < StartDay + MaxDays
  /\ today' = today + 1
  /\ UNCHANGED << dbVars, sideVars, workerVars, running, limiterVars, gateVars,
                  midnight_in, fetchVars >>

\* -------------------------------------------------------------- listing
SQL_MULTIPLIER == 3

\* WHERE is_dismissed = ... AND is_read_later = 0 of get_stories, for a store
\* with no blocked domain and no blocked word.
Visible(dis, later, dismissed_only, include_read_later, i) ==
  /\ (i \in DOMAIN dis) = dismissed_only
  /\ include_read_later \/ i \notin later

\* Faulty variant: the cursor compares the time alone.
PastCursor_TimeOnly(st, sort, cursor, i) ==
  \/ cursor = NoCursor
  \/ IF sort = "newest" THEN st[i].time < cursor[1] ELSE st[i].time > cursor[1]

\* The keyset condition: row i lies past the cursor <<time, id>>.
PastCursor(st, sort, cursor, i) ==
  \/ cursor = NoCursor
  \/ IF sort = "newest"
     THEN st[i].time < cursor[1] \/ (st[i].time = cursor[1] /\ i < cursor[2])
     ELSE st[i].time > cursor[1] \/ (st[i].time = cursor[1] /\ i > cursor[2])

\* ORDER BY time DESC, id DESC (newest) or time ASC, id ASC (oldest).
Precedes(st, sort, i, j) ==
  IF sort = "newest"
  THEN st[i].time > st[j].time \/ (st[i].time = st[j].time /\ i > j)
  ELSE st[i].time < st[j].time \/ (st[i].time = st[j].time /\ i < j)

RECURSIVE Ordered(_, _, _)
Ordered(st, sort, ids) ==
  IF ids = {} THEN << >>
  ELSE LET first == CHOOSE i \in ids : \A j \in ids \ {i} : Precedes(st, sort, i, j)
       IN << first >> \o Ordered(st, sort, ids \ {first})

\* One SQL batch: the ids of the rows fetchall returns, in order.
Fetchall(st, dis, later, dismissed_only, include_read_later, sort, cursor, sql_limit) ==
  LET all == Ordered(st, sort,
                     {i \in DOMAIN st :
                        /\ Visible(dis, later, dismissed_only, include_read_later, i)
                        /\ PastCursor(st, sort, cursor, i)})
  IN SubSeq(all, 1, IF Len(all) < sql_limit THEN Len(all) ELSE sql_limit)

\* Faulty variant: every row gets a key of its own.
DedupKey_PerStory(st, i) == << "hn", i >>

\* url = story.get("url") or f"hn:{id}"
DedupKey(st, i) ==
  IF st[i].url = NULL_URL THEN << "hn", i >> ELSE << "url", st[i].url >>

\* for row in rows, from row k on: skip a row whose key was seen, append the
\* others, stop at the limit.
RECURSIVE ProcessRows(_, _, _, _, _, _)
ProcessRows(st, rows, k, acc, seen_urls, limit) ==
  IF k > Len(rows) THEN [stories |-> acc, seen_urls |-> seen_urls]
  ELSE LET url == DedupKey(st, rows[k]) IN
       IF url \in seen_urls
       THEN ProcessRows(st, rows, k + 1, acc, seen_urls, limit)
       ELSE IF Len(acc) + 1 >= limit
            THEN [stories |-> Append(acc, rows[k]), seen_urls |-> seen_urls \cup {url}]
            ELSE ProcessRows(st, rows, k + 1, Append(acc, rows[k]),
                             seen_urls \cup {url}, limit)

\* The while loop of get_stories from one iteration on.
RECURSIVE Batches(_, _, _, _, _, _, _, _, _, _)
Batches(st, dis, later, dismissed_only, include_read_later, sort, limit, cursor, acc, seen_urls) ==
  LET sql_limit == limit * SQL_MULTIPLIER
      rows == Fetchall(st, dis, later, dismissed_only, include_read_later,
                       sort, cursor, sql_limit)
      has_more_in_db == Len(rows) = sql_limit
  IN IF rows = << >>
     THEN [stories |-> acc, has_more_in_db |-> has_more_in_db]
     ELSE LET r == ProcessRows(st, rows, 1, acc, seen_urls, limit)
              last_row == rows[Len(rows)]
          IN IF Len(r.stories) < limit /\ has_more_in_db
             THEN Batches(st, dis, later, dismissed_only, include_read_later, sort,
                          limit, << st[last_row].time, last_row >>, r.stories,
                          r.seen_urls)
             ELSE [stories |-> r.stories, has_more_in_db |-> has_more_in_db]

\* Database.get_stories: the ids returned, has_more and next_cursor.
get_stories(st, dis, later, dismissed_only, include_read_later, limit, cursor, sort) ==
  LET r == IF 0 < limit
           THEN Batches(st, dis, later, dismissed_only, include_read_later, sort,
                        limit, cursor, << >>, {})
           ELSE [stories |-> << >>, has_more_in_db |-> TRUE]
      n == Len(r.stories)
      last_story == IF n <= limit THEN r.stories[n] ELSE r.stories[limit]
  IN [stories |-> SubSeq(r.stories, 1, IF n < limit THEN n ELSE limit),
      has_more |-> n > limit \/ r.has_more_in_db,
      next_cursor |-> IF n > 0 /\ (r.has_more_in_db \/ n >= limit)
                      THEN << st[last_story].time, ":", last_story >> ELSE NULL]

\* parse_cursor: the string "time:id" split at the colon into a pair of
\* numbers, (None, None) for anything else.
parse_cursor(cursor) ==
  IF cursor # NULL /\ Len(cursor) = 3 /\ cursor[2] = ":"
  THEN << cursor[1], cursor[3] >> ELSE NoCursor

\* The ids of a sequence of ids.
Range(seq) == {seq[k] : k \in DOMAIN seq}

\* GET /api/stories without cursor, default flags: the first page.
ListFirst(limit, sort) ==
  /\ running = NoTask
  /\ page' = [limit |-> limit, sort |-> sort, cursor |-> NoCursor, before |-> {}]
               @@ get_stories(stories, dismissed, read_later, FALSE, FALSE,
                              limit, NoCursor, sort)
  /\ UNCHANGED << dbVars, dismissed, read_later, history, usage_summary, purged, codec,
                  toolVars,
                  today, workerVars, running, limiterVars, gateVars, midnight_in,
                  fetchVars >>

\* GET /api/stories?cursor=next_cursor with the limit and sort of the page
\* before: the client follows next_cursor.
ListNext ==
  /\ running = NoTask
  /\ page.next_cursor # NULL
  /\ page' = [limit |-> page.limit, sort |-> page.sort,
               cursor |-> parse_cursor(page.next_cursor),
               before |-> page.before \cup Range(page.stories)]
               @@ get_stories(stories, dismissed, read_later, FALSE, FALSE,
                              page.limit, parse_cursor(page.next_cursor), page.sort)
  /\ UNCHANGED << dbVars, dismissed, read_later, history, usage_summary, purged, codec,
                  toolVars,
                  today, workerVars, running, limiterVars, gateVars, midnight_in,
                  fetchVars >>

\* ------------------------------------------------------- specification
WorkerStep(w, billed) ==
  \/ WorkerGateSleep(w)
  \/ WorkerClaim(w)
  \/ WorkerClaimNone(w)
  \/ WorkerIdle(w)
  \/ WorkerCacheHit(w)
  \/ WorkerCacheMiss(w)
  \/ WorkerLockAcquired(w)
  \/ WorkerDomainWake(w)
  \/ WorkerCallQuota(w)
  \/ WorkerCallSend(w)
  \/ \E r \in Results(billed) : WorkerResponse(w, r)

Next ==
  \/ \E w \in Workers : WorkerStep(w, {1})
  \/ Tick
  \/ FetchBegin("sched")
  \/ FetchWrite("sched", Ids, Shapes({0}, {0}, {0}))

Spec == Init /\ [][Next]_vars

\* Ingestion in full: the scheduled fetch and POST /api/fetch overlapping,
\* sources that report a story in Tracked with changing score and comment
\* count (the two moving together), and the front page tracker.
Tracked == {1}
Moving == {sh \in Shapes({0, 1}, {0, 1}, {0}) : sh.descendants = sh.score}

NextIngest ==
  \/ \E w \in Workers : WorkerStep(w, {1})
  \/ Tick
  \/ \E f \in Fetchers : FetchBegin(f)
  \/ \E f \in Fetchers : FetchWrite(f, Tracked, Moving)
  \/ FrontPagePoll(Tracked)

SpecIngest == Init /\ [][NextIngest]_vars

\* The ingestor alone, both fetches overlapping, with sources that report a
\* story's time differently from one answer to the next; every story is a
\* link to the first article or a self-post.
Drifting ==
  {sh \in Shapes({0}, {0}, {0, 1}) : sh.url = 1 \/ (sh.url = NULL_URL /\ sh.text # NULL)}

NextCheckpoint ==
  \/ \E f \in Fetchers : FetchBegin(f)
  \/ \E f \in Fetchers : FetchWrite(f, Ids, Drifting)

SpecCheckpoint == Init /\ [][NextCheckpoint]_vars

\* Retention: the scheduled fetch, the user dismissing and saving stories,
\* the days passing and the cleanup pass.
NextRetention ==
  \/ FetchBegin("sched")
  \/ FetchWrite("sched", Ids, Shapes({0}, {0}, {0}))
  \/ \E i \in Ids : DismissStory(i)
  \/ \E i \in Ids : AddReadLater(i)
  \/ DayPasses
  \/ cleanup_stories

SpecRetention == Init /\ [][NextRetention]_vars

\* A renderer that never delivers a page, over link stories only: the URL
\* cache stays empty and no gate is ever set, so the cache-hit and gate
\* branches of the worker are left out.
WorkerFetchStep(w) ==
  \/ WorkerClaim(w)
  \/ WorkerClaimNone(w)
  \/ WorkerIdle(w)
  \/ WorkerCacheMiss(w)
  \/ WorkerLockAcquired(w)
  \/ WorkerDomainWake(w)
  \/ WorkerCallSend(w)

LinkShapes == {sh \in Shapes({0}, {0}, {0}) : sh.url # NULL_URL}

\* The renderer answers every call with a failure.
Failing == {r \in Results({1}) : r.status = "failed"}

NextFailing ==
  \/ \E w \in Workers : WorkerFetchStep(w)
  \/ \E w \in Workers : \E r \in Failing : WorkerResponse(w, r)
  \/ Tick
  \/ FetchBegin("sched")
  \/ FetchWrite("sched", Ids, LinkShapes)

SpecFailing == Init /\ [][NextFailing]_vars

\* The renderer answers every call with a block page, billed browser time
\* above zero.
Blocking == {r \in Results({1}) : r.status = "blocked"}

NextBlocking ==
  \/ \E w \in Workers : WorkerFetchStep(w)
  \/ \E w \in Workers : \E r \in Blocking : WorkerResponse(w, r)
  \/ Tick
  \/ FetchBegin("sched")
  \/ FetchWrite("sched", Ids, LinkShapes)

SpecBlocking == Init /\ [][NextBlocking]_vars

\* Crash recovery. The store as a process that died while fetching leaves
\* it: link stories to the articles of one site (SiteUrls, all of the first
\* domain), each pending or held by a worker of the dead process (`fetching`,
\* claimed one to MAX_RETRIES times), and an empty URL cache.
SiteUrls == {u \in 1..(NumUrls + 1) : extract_domain(u) = extract_domain(1)}

CrashRow(i, url, status, attempts) ==
  [NewRow(StoryDict(i, [url |-> url, text |-> NULL, skew |-> 0, score |-> 0,
                        descendants |-> 0]))
     EXCEPT !.content_status = status, !.content_attempts = attempts]

CrashStores(ids) ==
  LET rows(i) == {CrashRow(i, u, "pending", 0) : u \in SiteUrls}
                   \cup {CrashRow(i, u, "fetching", n) :
                           u \in SiteUrls, n \in 1..MAX_RETRIES}
  IN {st \in [ids -> UNION {rows(i) : i \in ids}] :
        \A i \in DOMAIN st : st[i] \in rows(i)}

\* The new process has been started over such a store and is in lifespan's
\* startup, before any task is created.
InitRecovery ==
  /\ \E ids \in SUBSET Ids : stories \in CrashStores(ids)
  /\ fetched_urls = << >>
  /\ usage_log = EmptyBag
  /\ dismissed = << >>
  /\ read_later = {}
  /\ history = {}
  /\ usage_summary = << >>
  /\ Started
  /\ codec = NoCodec
  /\ ToolsUnused
  /\ running = Lifespan

\* lifespan: db.cleanup_stuck_content_jobs(), then the tasks are created.
Startup ==
  /\ running = Lifespan
  /\ stories' = cleanup_stuck_content_jobs(stories)
  /\ running' = NoTask
  /\ UNCHANGED << fetched_urls, usage_log, sideVars, today, workerVars, limiterVars,
                  gateVars, midnight_in, fetchVars >>

\* The renderer answers every call with the page.
Succeeding == {r \in Results({1}) : r.status = "done"}

NextRecovery ==
  \/ Startup
  \/ \E w \in Workers : WorkerFetchStep(w)
  \/ \E w \in Workers : WorkerCacheHit(w)
  \/ \E w \in Workers : \E r \in Succeeding : WorkerResponse(w, r)
  \/ Tick

\* The startup code runs to its end, the event loop runs every task that is
\* ready (a worker whose sleep is over, whose lock is free or whose request
\* has been answered), the renderer answers every request, and time passes.
FairRecovery ==
  /\ WF_vars(Startup)
  /\ \A w \in Workers : SF_vars(WorkerFetchStep(w))
  /\ \A w \in Workers : SF_vars(WorkerCacheHit(w))
  /\ \A w \in Workers : SF_vars(\E r \in Succeeding : WorkerResponse(w, r))
  /\ SF_vars(Tick)

SpecRecovery == InitRecovery /\ [][NextRecovery]_vars /\ FairRecovery

\* The queue drained: the store a stopped process leaves, its stories links
\* to the first article, no ingestion, and a renderer that answers every call
\* in any of its ways.
InitSettle ==
  /\ InitRecovery
  /\ \A i \in DOMAIN stories : stories[i].url = 1

NextSettle ==
  \/ Startup
  \/ \E w \in Workers : WorkerStep(w, {1})
  \/ Tick

\* The event loop runs every task that is ready, the renderer answers every
\* request, and time passes (so that every gate expires).
FairSettle ==
  /\ WF_vars(Startup)
  /\ \A w \in Workers : SF_vars(WorkerStep(w, {1}))
  /\ SF_vars(Tick)

SpecSettle == InitSettle /\ [][NextSettle]_vars /\ FairSettle

\* The renderer answers every call with 429 and a Retry-After of its choice.
MaxBackoff == 2
Throttling ==
  {[status |-> "rate_limited", content |-> NULL, browser_ms |-> 0, retry_after |-> ra] :
     ra \in 1..MaxBackoff}

NextBackoff ==
  \/ \E w \in Workers : WorkerFetchStep(w)
  \/ \E w \in Workers : WorkerGateSleep(w)
  \/ \E w \in Workers : \E r \in Throttling : WorkerResponse(w, r)
  \/ Tick
  \/ FetchBegin("sched")
  \/ FetchWrite("sched", Ids, LinkShapes)

SpecBackoff == Init /\ [][NextBackoff]_vars

\* The same program over a database whose calls may raise while a worker
\* handles a job (locked or full database): the cache lookup, the writes of
\* the finalization, and the write of the except clause.
MaxWrites == 3         \* database calls in the longest finalization branch

\* The renderer delivers the page or fails (no 429, so no gate is ever set
\* and the gate branches are left out).
Answering == {r \in Results({1}) : r.status \in {"done", "failed"}}

NextFaulty ==
  \/ \E w \in Workers : WorkerFetchStep(w)
  \/ \E w \in Workers : WorkerCacheHit(w)
  \/ \E w \in Workers : \E r \in Answering : WorkerResponse(w, r)
  \/ \E w \in Workers : \E written \in BOOLEAN : WorkerLookupRaises(w, written)
  \/ \E w \in Workers : \E r \in Answering : \E raising \in 1..MaxWrites :
       \E written \in BOOLEAN : WorkerFinalizeRaises(w, r, raising, written)
  \/ Tick
  \/ FetchBegin("sched")
  \/ FetchWrite("sched", Ids, LinkShapes)

SpecFaulty == Init /\ [][NextFaulty]_vars

\* The front page tracker next to the scheduled ingestion.
NextFrontPage ==
  \/ FetchBegin("sched")
  \/ FetchWrite("sched", Ids, Shapes({0}, {0}, {0}))
  \/ FrontPagePollOf(DeepLists(Ids))

SpecFrontPage == Init /\ [][NextFrontPage]_vars

\* Retention with the reader opening stories too; the stories are links.
NextPurge ==
  \/ FetchBegin("sched")
  \/ FetchWrite("sched", Ids, LinkShapes)
  \/ \E i \in Ids : DismissStory(i)
  \/ \E i \in Ids : AddReadLater(i)
  \/ \E i \in Ids : OpenStory(i)
  \/ DayPasses
  \/ cleanup_stories

SpecPurge == Init /\ [][NextPurge]_vars

\* Usage accounting over months: billed calls are logged in the first days,
\* the days pass and the cleanup pass runs at any time.
NextUsage ==
  \/ \E ms \in {1, 2} : LogUsage(ms)
  \/ DayPassesUntil(MaxMonths * MonthLength)
  \/ cleanup_stories

SpecUsage == Init /\ [][NextUsage]_vars

\* Backups: story_cleanup backs up at startup and every hour; with restarts,
\* at any time.
NextBackup ==
  \/ \E ok, partial \in BOOLEAN : backup_rotate(ok, partial)
  \/ HourPasses(MaxHours)

SpecBackup == Init /\ [][NextBackup]_vars

\* ------------------------------------------------- the primary source
\* The sizes of fetch_via_algolia, scaled down: hitsPerPage (100 in the
\* code), the pages of a window (10) and the hits of a window (1000).
PageSize == 1
MaxPages == 2
WindowHits == 2
NumHeld == 3           \* stories the source comes to hold
MaxRequests == 4       \* a request up to this one may fail
NoBound == 0           \* upper_bound = None

\* search_by_date: the stories matching the numeric filters, newest first.
RECURSIVE ByDate(_, _)
ByDate(held, ids) ==
  IF ids = {} THEN << >>
  ELSE LET first == CHOOSE i \in ids : \A j \in ids \ {i} :
                      held[i] > held[j] \/ (held[i] = held[j] /\ i > j)
       IN << first >> \o ByDate(held, ids \ {first})

\* One answer of the source: the hits of a page and nbPages.
Search(held, since, upper_bound, page_no) ==
  LET all == ByDate(held, {i \in DOMAIN held :
                             /\ held[i] > since
                             /\ upper_bound # NoBound => held[i] < upper_bound})
      last == IF (page_no + 1) * PageSize < Len(all) THEN (page_no + 1) * PageSize
              ELSE Len(all)
  IN [hits |-> SubSeq(all, page_no * PageSize + 1, last),
      nbPages |-> (Len(all) + PageSize - 1) \div PageSize]

\* while len(batch_stories) < 1000 and page_no < 10, from one page on; request
\* number fail_at raises. `failed` is the complete failure on the first
\* request.
RECURSIVE PageLoop(_, _, _, _, _, _, _, _)
PageLoop(held, since, upper_bound, page_no, batch_stories, req, fail_at, all_stories) ==
  IF ~(Len(batch_stories) < WindowHits /\ page_no < MaxPages)
  THEN [batch |-> batch_stories, req |-> req, failed |-> FALSE]
  ELSE IF req + 1 = fail_at
  THEN [batch |-> batch_stories, req |-> req + 1,
        failed |-> page_no = 0 /\ all_stories = << >>]
  ELSE LET data == Search(held, since, upper_bound, page_no) IN
       IF data.hits = << >>
       THEN [batch |-> batch_stories, req |-> req + 1, failed |-> FALSE]
       ELSE IF page_no + 1 >= data.nbPages
       THEN [batch |-> batch_stories \o data.hits, req |-> req + 1, failed |-> FALSE]
       ELSE PageLoop(held, since, upper_bound, page_no + 1, batch_stories \o data.hits,
                     req + 1, fail_at, all_stories)

\* while True, from one window on.
RECURSIVE WindowLoop(_, _, _, _, _, _)
WindowLoop(held, since, upper_bound, all_stories, req, fail_at) ==
  LET r == PageLoop(held, since, upper_bound, 0, << >>, req, fail_at, all_stories)
      times == {held[r.batch[k]] : k \in DOMAIN r.batch}
      oldest_in_batch == CHOOSE t \in times : \A u \in times : t <= u
  IN IF r.failed THEN [stories |-> << >>, ok |-> FALSE]
     ELSE IF r.batch = << >> THEN [stories |-> all_stories, ok |-> TRUE]
     ELSE IF oldest_in_batch <= since \/ Len(r.batch) < WindowHits
     THEN [stories |-> all_stories \o r.batch, ok |-> TRUE]
     ELSE WindowLoop(held, since, oldest_in_batch, all_stories \o r.batch, r.req,
                     fail_at)

\* fetch_via_algolia(client, since_time): the ids fetched and the success flag.
fetch_via_algolia(held, since, fail_at) ==
  WindowLoop(held, since, NoBound, << >>, 0, fail_at)

\* parse_algolia_story for a link story the source dates at `time`.
HeldDict(i, time) ==
  [StoryDict(i, [url |-> 1, text |-> NULL, skew |-> 0, score |-> 0, descendants |-> 0])
     EXCEPT !.time = time]

\* A story is submitted: the source holds it from now on, dated today.
Publish(i) ==
  /\ running = NoTask
  /\ i \notin DOMAIN feed.held
  /\ feed' = [feed EXCEPT !.held = [j \in DOMAIN feed.held \cup {i} |->
                                     IF j = i THEN today ELSE feed.held[j]]]
  /\ UNCHANGED << dbVars, dismissed, read_later, history, usage_summary, purged, page,
                  codec, backup_dir, rotated, migration, reset, today, workerVars,
                  running, limiterVars, gateVars, midnight_in, fetchVars >>

\* fetch_new_stories in one piece: the checkpoint, the primary source with
\* request number fail_at raising (0: none), the upserts, and the Firebase
\* fallback (any of the newer stories) when the primary source failed.
FetchPass(fail_at, fallback) ==
  LET since == SinceTime(stories, today)
      r == fetch_via_algolia(feed.held, since, fail_at)
      algolia_stories == {HeldDict(r.stories[k], feed.held[r.stories[k]]) :
                            k \in DOMAIN r.stories}
      firebase_stories == {HeldDict(i, feed.held[i]) : i \in fallback}
  IN /\ running = NoTask
     /\ fallback \subseteq {i \in DOMAIN feed.held : feed.held[i] > since}
     /\ IF since >= today
        THEN /\ fallback = {}
             /\ fail_at = 0
             /\ feed' = [feed EXCEPT !.pass = "up to date", !.since = since,
                                     !.now = today]
             /\ UNCHANGED stories
        ELSE /\ r.ok => fallback = {}
             /\ feed' = [feed EXCEPT !.pass = IF r.ok THEN "ok" ELSE "failed",
                                     !.since = since, !.now = today]
             /\ stories' = UpsertAll(UpsertAll(stories, algolia_stories),
                                     firebase_stories)
     /\ UNCHANGED << fetched_urls, usage_log, dismissed, read_later, history,
                     usage_summary, purged, page, codec, backup_dir, rotated,
                     migration, reset, today, workerVars, running, limiterVars,
                     gateVars, midnight_in, fetchVars >>

\* Stories are submitted, the days pass, and the ingestion runs at any time.
NextWindows ==
  \/ \E i \in 1..NumHeld : Publish(i)
  \/ DayPassesUntil(StartDay + 1)
  \/ \E fail_at \in 0..MaxRequests : \E fallback \in SUBSET (1..NumHeld) :
       FetchPass(fail_at, fallback)

SpecWindows == Init /\ [][NextWindows]_vars

\* ---------------------------------------------------------------- reset
\* A DELETE FROM stories with foreign keys on: the statement fails (and
\* deletes nothing) while a read_later or history row references a story.
Referenced(st, later, hist) == (later \cup hist) \cap DOMAIN st

\* python hn_new.py --reset, the server not running: the five DELETE
\* statements in their order and the commit; a statement that raises ends the
\* run with nothing committed.
Reset ==
  /\ running = NoTask
  /\ \A f \in Fetchers : fetch_pc[f] = "idle"
  /\ IF Referenced(stories, read_later, history) # {}
     THEN /\ reset' = "raised"
          /\ UNCHANGED << dbVars, dismissed, history >>
     ELSE /\ reset' = "done"
          /\ stories' = << >>
          /\ fetched_urls' = << >>
          /\ usage_log' = EmptyBag
          /\ dismissed' = << >>
          /\ history' = {}
  /\ UNCHANGED << read_later, usage_summary, purged, page, codec, backup_dir, rotated,
                  migration, feed, today, workerVars, running, limiterVars, gateVars,
                  midnight_in, fetchVars >>

\* The reader at work between runs with --reset.
NextReset ==
  \/ FetchBegin("sched")
  \/ FetchWrite("sched", Ids, LinkShapes)
  \/ \E i \in Ids : DismissStory(i)
  \/ \E i \in Ids : AddReadLater(i)
  \/ \E i \in Ids : OpenStory(i)
  \/ Reset

SpecReset == Init /\ [][NextReset]_vars

\* ------------------------------------------- compression of old content
batch_size == 100
MaxErrors == 3         \* the migration is followed up to this many errors

\* content LIKE 'z:%': SQLite's LIKE does not tell ASCII case apart.
LikePrefix(data) ==
  /\ Len(data) >= Len(COMPRESS_PREFIX)
  /\ data[1] \in {"z", "Z"}
  /\ data[2] = ":"

\* WHERE content IS NOT NULL AND content != '' AND content NOT LIKE 'z:%'
UncompressedRows(st) ==
  {i \in DOMAIN st : st[i].content # NULL /\ st[i].content # EMPTY
                       /\ ~LikePrefix(st[i].content)}

\* decompress_content(compressed) == original, for a row of the batch.
\* decompress_content returns its argument when the decompression raises
\* (except Exception: return data); `unverifiable` are the rows for which it
\* does, a page too large to inflate in the memory at hand for one.
Verified(st, unverifiable, i) ==
  LET original == st[i].content
      compressed == compress_content(original)
      decompressed == IF i \in unverifiable THEN compressed
                      ELSE decompress_content(compressed)
  IN decompressed = original

\* SELECT ... LIMIT batch_size: any batch_size of the rows, all of them when
\* there are fewer.
Batches_of(ids) ==
  IF Cardinality(ids) <= batch_size THEN {ids}
  ELSE {rows \in SUBSET ids : Cardinality(rows) = batch_size}

\* migrate_compress_content up to the loop: the backup (RuntimeError when it
\* fails) and the count of uncompressed rows, return when there is none.
MigrateBegin(ok, unverifiable) ==
  /\ running = NoTask
  /\ migration.pc = "off"
  /\ unverifiable \subseteq UncompressedRows(stories)
  /\ IF ok
     THEN /\ rotated' = [new |-> 0, slot |-> RotateFrom(backup_dir.slot, Len(all_slots))]
          /\ backup_dir' = PlaceNew(rotated')
          /\ migration' =
               [pc |-> IF UncompressedRows(stories) = {} THEN "done" ELSE "loop",
                total |-> Cardinality(UncompressedRows(stories)),
                migrated |-> 0, errors |-> 0, unverifiable |-> unverifiable]
     ELSE /\ migration' = [migration EXCEPT !.pc = "raised"]
          /\ UNCHANGED << backup_dir, rotated >>
  /\ UNCHANGED << dbVars, dismissed, read_later, history, usage_summary, purged, page,
                  codec, reset, feed, today, workerVars, running, limiterVars, gateVars,
                  midnight_in, fetchVars >>

\* One iteration of `while True`: the next batch of uncompressed rows; break
\* when it is empty, else every row that passes the verification is updated
\* and counted as migrated, every other row is counted as an error.
MigrateBatch ==
  /\ running = NoTask
  /\ migration.pc = "loop"
  /\ migration.errors < MaxErrors
  /\ \E rows \in Batches_of(UncompressedRows(stories)) :
       LET batch_updates == {i \in rows : Verified(stories, migration.unverifiable, i)}
       IN IF rows = {}
          THEN /\ migration' = [migration EXCEPT !.pc = "done"]
               /\ UNCHANGED stories
          ELSE /\ stories' = [i \in DOMAIN stories |->
                                IF i \in batch_updates
                                THEN [stories[i] EXCEPT
                                        !.content = compress_content(stories[i].content)]
                                ELSE stories[i]]
               /\ migration' =
                    [migration EXCEPT
                       !.migrated = @ + Cardinality(batch_updates),
                       !.errors = @ + Cardinality(rows \ batch_updates)]
  /\ UNCHANGED << fetched_urls, usage_log, dismissed, read_later, history,
                  usage_summary, purged, page, codec, backup_dir, rotated, reset, feed, today,
                  workerVars, running, limiterVars, gateVars, midnight_in, fetchVars >>

\* A store from before the compression: stories with their content stored
\* as text (a page, or a text beginning with "Z:"), already compressed, or
\* without content.
LEGACY_TEXT == << "Z", ":", "p" >>
LegacyRow(i, content) ==
  [CrashRow(i, 1, IF content = NULL THEN "pending" ELSE "done", 0)
     EXCEPT !.content = content]

LegacyStores(ids) ==
  LET pick == [ids -> {NULL, PAGE, HN_TEXT, LEGACY_TEXT, compress_content(PAGE)}]
  IN {[i \in ids |-> LegacyRow(i, q[i])] : q \in pick}

InitMigration ==
  /\ \E ids \in SUBSET Ids : stories \in LegacyStores(ids)
  /\ fetched_urls = << >>
  /\ usage_log = EmptyBag
  /\ dismissed = << >>
  /\ read_later = {}
  /\ history = {}
  /\ usage_summary = << >>
  /\ Started
  /\ codec = NoCodec
  /\ ToolsUnused
  /\ running = NoTask

\* python hn_new.py --migrate-compress
NextMigration ==
  \/ \E ok \in BOOLEAN : \E unverifiable \in SUBSET Ids : MigrateBegin(ok, unverifiable)
  \/ MigrateBatch

SpecMigration == InitMigration /\ [][NextMigration]_vars

\* Queue cleanup over any store: stories with or without URL, in any status,
\* claimed up to MAX_RETRIES times (rows written by earlier versions of the
\* program included). The process starts over it and its workers run.
AnyStores(ids) ==
  LET urls == {NULL_URL} \cup SiteUrls
      pick == [ids -> [url : urls, status : Statuses, attempts : 0..MAX_RETRIES]]
  IN {[i \in ids |-> CrashRow(i, q[i].url, q[i].status, q[i].attempts)] : q \in pick}

InitCleanup ==
  /\ \E ids \in SUBSET Ids : stories \in AnyStores(ids)
  /\ fetched_urls = << >>
  /\ usage_log = EmptyBag
  /\ dismissed = << >>
  /\ read_later = {}
  /\ history = {}
  /\ usage_summary = << >>
  /\ Started
  /\ codec = NoCodec
  /\ ToolsUnused
  /\ running = Lifespan

SpecCleanup == InitCleanup /\ [][NextRecovery]_vars

\* Listing. The store holds the stories 1..n for some n up to MaxRows, each a
\* link or a story without URL; the first MaxShuffled of them have times in
\* any order relative to their ids. The client pages through the store in
\* either order.
ListingRow(i, url, time) ==
  [NewRow(StoryDict(i, [url |-> url, text |-> NULL, skew |-> 0, score |-> 0,
                        descendants |-> 0]))
     EXCEPT !.time = IF i <= MaxShuffled THEN time ELSE HNTime(i)]

ListingStores(n) ==
  {[i \in 1..n |-> ListingRow(i, url[i], IF i <= MaxShuffled THEN time[i] ELSE 1)] :
     url \in [1..n -> {NULL_URL} \cup Urls],
     time \in [1..(IF n <= MaxShuffled THEN n ELSE MaxShuffled) -> 1..2]}

InitListing ==
  /\ \E n \in 0..MaxRows : stories \in ListingStores(n)
  /\ fetched_urls = << >>
  /\ usage_log = EmptyBag
  /\ dismissed = << >>
  /\ read_later = {}
  /\ history = {}
  /\ usage_summary = << >>
  /\ Started
  /\ codec = NoCodec
  /\ ToolsUnused
  /\ running = NoTask

Sorts == {"newest", "oldest"}

NextListing ==
  \/ \E limit \in 1..MaxLimit : \E sort \in Sorts : ListFirst(limit, sort)
  \/ ListNext

SpecListing == InitListing /\ [][NextListing]_vars

\* The same with a reader who has dismissed one of the first two stories, or
\* none, and may have saved the third for later.
InitPaging ==
  /\ \E n \in 0..MaxRows : stories \in ListingStores(n)
  /\ fetched_urls = << >>
  /\ usage_log = EmptyBag
  /\ dismissed \in {<< >>} \cup {dismiss_story(<< >>, i, StartDay) : i \in 1..2}
  /\ read_later \in SUBSET ({3} \cap DOMAIN stories)
  /\ history = {}
  /\ usage_summary = << >>
  /\ Started
  /\ codec = NoCodec
  /\ ToolsUnused
  /\ running = NoTask

SpecPaging == InitPaging /\ [][NextListing]_vars

\* Compression. A text about to be stored, or a value found in the content
\* column (written before compression existed, or by it): texts use the
\* characters the recoding covers, stored values also its output characters.
Strings(alphabet, n) == UNION {[1..k -> alphabet] : k \in 0..n}
Texts == Strings({"p", "z", ":"}, MaxLen)
StoredValues == Strings({"p", "z", ":", "P"}, MaxLen)

InitCodec ==
  /\ stories = << >>
  /\ fetched_urls = << >>
  /\ usage_log = EmptyBag
  /\ dismissed = << >>
  /\ read_later = {}
  /\ history = {}
  /\ usage_summary = << >>
  /\ Started
  /\ running = NoTask
  /\ ToolsUnused
  /\ codec \in {[text |-> x, stored |-> NULL, loaded |-> NULL] : x \in Texts}
               \cup {[text |-> NULL, stored |-> x, loaded |-> NULL] : x \in StoredValues}

\* content = compress_content(content) before the row is written
CodecStore ==
  /\ codec.text # NULL /\ codec.stored = NULL
  /\ codec' = [codec EXCEPT !.stored = compress_content(codec.text)]
  /\ UNCHANGED << dbVars, dismissed, read_later, history, usage_summary, purged, page,
                  toolVars,
                  today, workerVars, running, limiterVars, gateVars, midnight_in,
                  fetchVars >>

\* decompress_content(row["content"]) when the row is read
CodecLoad ==
  /\ codec.stored # NULL /\ codec.loaded = NULL
  /\ codec' = [codec EXCEPT !.loaded = decompress_content(codec.stored)]
  /\ UNCHANGED << dbVars, dismissed, read_later, history, usage_summary, purged, page,
                  toolVars,
                  today, workerVars, running, limiterVars, gateVars, midnight_in,
                  fetchVars >>

NextCodec == CodecStore \/ CodecLoad

SpecCodec == InitCodec /\ [][NextCodec]_vars

\* ------------------------------------------------- properties: the queue
\* The workers that receive a job in a step, and the rows that enter
\* `fetching` in it.
Receivers == {w \in Workers : job[w] = NoJob /\ job'[w] # NoJob}
Entering ==
  {i \in DOMAIN stories \cap DOMAIN stories' :
     /\ stories[i].content_status # "fetching"
     /\ stories'[i].content_status = "fetching"}

\* A claim call of worker w returns in this step (with a row or with None).
ClaimReturns(w) == pc[w] = "top" /\ pc'[w] \in {"claimed", "idle"}

\* Eligibility as the queue contract words it.
Claimable(i) ==
  /\ stories[i].content_status \in {"pending", "retry"}
  /\ stories[i].url # NULL_URL
  /\ stories[i].content_attempts < MAX_RETRIES

\* C1: at no time do two workers hold (between their claim and their
\* complete/retry) a job for the same story id.
C1_NoStoryHeldTwice ==
  \A w1, w2 \in Workers :
    (w1 # w2 /\ job[w1] # NoJob /\ job[w2] # NoJob) => job[w1].id # job[w2].id

\* C2: every step hands a job to at most one worker, the row handed out is
\* exactly the row that entered `fetching` in that step, and no row enters
\* `fetching` without being handed to a worker; so a story is returned by a
\* second claim only after its status has left `fetching`.
C2_ClaimGoesToOneWorker ==
  [][ /\ Cardinality(Receivers) <= 1
      /\ Cardinality(Entering) = Cardinality(Receivers)
      /\ \A w \in Receivers : Entering = {job'[w].id} ]_vars

\* Two workers hold jobs for two different stories, both rows `fetching`.
C2_Witness ==
  \E w1, w2 \in Workers :
    /\ w1 # w2 /\ job[w1] # NoJob /\ job[w2] # NoJob /\ job[w1].id # job[w2].id
    /\ stories[job[w1].id].content_status = "fetching"
    /\ stories[job[w2].id].content_status = "fetching"

\* C3: in every reachable state every story has content_attempts <= MAX_RETRIES.
C3_AttemptsBounded ==
  \A i \in DOMAIN stories : stories[i].content_attempts <= MAX_RETRIES

\* A row put back to `retry` with all its attempts used while a claim runs.
C3_Witness ==
  \E i \in DOMAIN stories, w \in Workers :
    /\ stories[i].content_status = "retry"
    /\ stories[i].content_attempts = MAX_RETRIES
    /\ stories[i].url # NULL_URL
    /\ pc[w] = "idle"

\* C4: a claim returns only a row that was pending or retry, had a URL and
\* fewer than MAX_RETRIES attempts immediately before; when no row is
\* eligible it returns nothing and changes no row.
C4_ClaimOnlyEligible ==
  [][ \A w \in Workers :
        ClaimReturns(w) =>
          IF \E i \in DOMAIN stories : Claimable(i)
          THEN job'[w] # NoJob /\ job'[w].id \in DOMAIN stories /\ Claimable(job'[w].id)
          ELSE job'[w] = NoJob /\ stories' = stories ]_vars

\* A claim has returned nothing while the table holds a terminal row, a row
\* without URL and no eligible row.
C4_Witness ==
  \E w \in Workers :
    /\ pc[w] = "idle" /\ running = w
    /\ \E i \in DOMAIN stories : stories[i].content_status \in Terminal
    /\ \E i \in DOMAIN stories :
         stories[i].url = NULL_URL /\ stories[i].content_status = "pending"

\* C5: the row a claim returns has the smallest attempt count among the
\* eligible rows and, among those, the smallest submission time.
C5_ClaimOrder ==
  [][ \A w \in Receivers :
        LET i == job'[w].id IN
        \A j \in DOMAIN stories :
          Claimable(j) =>
            /\ stories[j].content_attempts >= stories[i].content_attempts
            /\ stories[j].content_attempts = stories[i].content_attempts
                 => stories[j].time >= stories[i].time ]_vars

\* A fresh story has just been claimed ahead of an older, still eligible
\* story that has already been attempted.
C5_Witness ==
  \E w \in Workers :
    /\ pc[w] = "claimed" /\ running = w /\ job[w].content_attempts = 1
    /\ \E j \in DOMAIN stories :
         /\ stories[j].content_status = "retry" /\ stories[j].url # NULL_URL
         /\ stories[j].content_attempts \in 1..(MAX_RETRIES - 1)
         /\ stories[j].time < stories[job[w].id].time

\* ------------------------------------------- properties: the rate limiter
\* Worker w passes wait_for_domain_rate_limit in this step.
Passes(w) == pc[w] \in {"claimed", "lockwait", "domsleep"} /\ pc'[w] = "call"

\* C6: whenever a worker passes wait_for_domain_rate_limit for a domain, at
\* least DOMAIN_REQUEST_DELAY seconds have gone by since the previous pass of
\* any worker for that domain.
C6_DomainSpacing ==
  [][ \A w \in Workers :
        Passes(w) => since_last_request[job[w].domain] >= DOMAIN_REQUEST_DELAY ]_vars

\* A worker sleeps out the delay of a domain, holding the lock, while another
\* worker waits for the lock.
C6_Witness ==
  \E w, v \in Workers :
    /\ pc[w] = "domsleep" /\ domain_lock = w /\ domain_sleep_left > 0
    /\ pc[v] = "lockwait" /\ job[v].domain = job[w].domain

\* ---------------------------------------- properties: status transitions
\* The rows present before and after a step whose status the step changes.
StatusChanged ==
  {i \in DOMAIN stories \cap DOMAIN stories' :
     stories[i].content_status # stories'[i].content_status}

ListedTransitions ==
  {<< "pending", "fetching" >>, << "retry", "fetching" >>, << "fetching", "done" >>,
   << "fetching", "blocked" >>, << "fetching", "failed" >>, << "fetching", "skipped" >>,
   << "fetching", "retry" >>}

BatchWritten == \E f \in Fetchers : fetch_pc[f] = "http" /\ fetch_pc'[f] = "idle"

C9_CheckpointMonotone ==
  [][ BatchWritten =>
        get_newest_story_time(stories') >= get_newest_story_time(stories) ]_vars

\* A POST /api/fetch was interrupted after a proper prefix of its batch, over
\* a table that holds some of the stories and not the others.
C9_Witness ==
  /\ fetch_status = "error"
  /\ DOMAIN stories # {} /\ DOMAIN stories # Ids
  /\ \E f \in Fetchers : fetch_pc[f] = "http" /\ since_time[f] < get_newest_story_time(stories)

\* ------------------------------------------------- properties: retention
\* C10: when a step deletes a story that has a dismissal row, the dismissal
\* row is still there after the step unless it is older than
\* DISMISSED_MARKER_DAYS.
C10_DismissalOutlivesStory ==
  [][ \A i \in DOMAIN stories \cap DOMAIN dismissed :
        (i \notin DOMAIN stories' /\ ~(dismissed[i] < today - DISMISSED_MARKER_DAYS))
          => i \in DOMAIN dismissed' ]_vars

\* C11: an id that cleanup deleted as a dismissed story is not among the rows
\* the default listing (dismissed and saved stories left out) selects.
C11_PurgedStaysOut ==
  \A i \in purged :
    ~(i \in DOMAIN stories /\ Visible(dismissed, read_later, FALSE, FALSE, i))

\* ------------------------------------------------- properties: content
\* C12: a row that holds content c (written by a worker's finalization or by
\* a self-text insert) holds the teaser generated from c: its first
\* TEASER_LENGTH characters, stripped, with "..." when c is longer.
C12_TeaserFollowsContent ==
  \A i \in DOMAIN stories :
    ~Falsy(stories[i].content)
      => stories[i].teaser = Teaser(decompress_content(stories[i].content))

\* ------------------------------------------------- properties: the gates
\* The rows a step takes to `done` with fetched content (a worker's
\* finalization; the self-text upsert is not a fetch).
FetchedDone ==
  {i \in DOMAIN stories \cap DOMAIN stories' :
     /\ stories[i].content_status # "done"
     /\ stories'[i].content_status = "done"
     /\ stories'[i].content_source # << "hn_text" >>}

\* C13: in a step taken while the daily-quota gate is set, no story goes to
\* `done`.
C13_NoDoneUnderQuotaGate ==
  [][ cf_quota_left > 0 => FetchedDone = {} ]_vars

\* C14: a job put back in `retry` is one the claim selects again (once no
\* gate holds the workers back), whatever its attempt count.
C14_RetryIsClaimable ==
  \A i \in DOMAIN stories :
    stories[i].content_status = "retry" => Eligible(stories, i)

\* ------------------------------------------- properties: failing renderer
\* C15: with a renderer that fails every call, a link story changes status
\* only along pending -> fetching -> retry -> fetching -> retry -> fetching
\* -> failed: it enters `fetching` from pending or retry, leaves it for
\* `retry` after attempts 1 and 2 and for `failed` after attempt 3, and
\* `failed` is final.
C15_FailingPath ==
  [][ \A i \in StatusChanged :
        LET old == stories[i]
            new == stories'[i]
        IN \/ /\ old.content_status \in {"pending", "retry"}
              /\ new.content_status = "fetching"
              /\ new.content_attempts = old.content_attempts + 1
           \/ /\ old.content_status = "fetching"
              /\ new.content_status = "retry"
              /\ new.content_attempts < MAX_RETRIES
           \/ /\ old.content_status = "fetching"
              /\ new.content_status = "failed"
              /\ new.content_attempts = MAX_RETRIES ]_vars

\* ------------------------------------------ properties: blocking renderer
\* SELECT COUNT(*) FROM usage_log WHERE story_id = i
UsageEntries(i) ==
  CountRows(usage_log, {r \in BagToSet(usage_log) : r.story_id = i})

\* C16: with a renderer that answers every call with a billed block page, a
\* story that is `blocked` has MAX_RETRIES entries in usage_log, one for each
\* attempt.
C16_BlockedAttemptsLogged ==
  \A i \in DOMAIN stories :
    stories[i].content_status = "blocked" => UsageEntries(i) = MAX_RETRIES

\* ------------------------------------------------ properties: recovery
\* The link stories a dead process left in `fetching` with attempts to spare.
LeftFetching ==
  {i \in DOMAIN stories : /\ stories[i].content_status = "fetching"
                          /\ stories[i].content_attempts < MAX_RETRIES}

\* C17: the startup cleanup, which runs before any worker, moves every story
\* left in `fetching` with attempts to spare to `retry`; with a renderer that
\* succeeds, every such story is eventually `done`.
C17_CrashRecovery ==
  /\ [][ running = Lifespan =>
           /\ \A i \in LeftFetching : stories'[i].content_status = "retry"
           /\ UNCHANGED workerVars ]_vars
  /\ \A i \in Ids :
       (running = Lifespan /\ i \in LeftFetching)
         ~> (i \in DOMAIN stories /\ stories[i].content_status = "done")

\* The startup cleanup has just put back a story the dead process had claimed
\* twice: no worker has run yet.
C17_Witness ==
  /\ running = NoTask
  /\ \A w \in Workers : pc[w] = "top" /\ job[w] = NoJob
  /\ idle_iterations = 0 /\ fetched_urls = << >>
  /\ \E i \in DOMAIN stories :
       stories[i].content_status = "retry" /\ stories[i].content_attempts = 2

\* ------------------------------------------------- properties: listing
\* The rows a request for page `p` could return: the visible rows past its
\* cursor.
InScope(p) ==
  {i \in DOMAIN stories : /\ Visible(dismissed, read_later, FALSE, FALSE, i)
                          /\ PastCursor(stories, p.sort, p.cursor, i)}

\* C18: a page never holds two stories with the same URL; a story with a URL
\* is on the page only if no row in scope with that URL sorts before it; and
\* stories without URL are not merged: the page holds the first rows in
\* scope, duplicates of an earlier URL left out, up to the limit.
C18_OnePerUrl ==
  LET ids == page.stories
      dup(i) == stories[i].url # NULL_URL
                  /\ \E j \in InScope(page) :
                        stories[j].url = stories[i].url /\ Precedes(stories, page.sort, j, i)
      firsts == {i \in InScope(page) : ~dup(i)}
  IN /\ \A a, b \in DOMAIN ids :
          (a # b /\ stories[ids[a]].url # NULL_URL)
            => stories[ids[a]].url # stories[ids[b]].url
     /\ \A a, b \in DOMAIN ids : a < b => Precedes(stories, page.sort, ids[a], ids[b])
     /\ Range(ids) \subseteq firsts
     /\ page.limit > 0 =>
          \A i \in firsts \ Range(ids) :
            /\ Len(ids) = page.limit
            /\ Precedes(stories, page.sort, ids[Len(ids)], i)

\* A page of two stories whose second story came from the second SQL batch:
\* every row of the first batch but one was a duplicate of a URL seen before.
C18_Witness ==
  /\ page.limit = 2 /\ Len(page.stories) = 2
  /\ Cardinality({j \in InScope(page) :
                    Precedes(stories, page.sort, j, page.stories[2])})
       >= page.limit * SQL_MULTIPLIER
  /\ \E j \in InScope(page) \ Range(page.stories) :
       /\ stories[j].url = stories[page.stories[1]].url
       /\ Precedes(stories, page.sort, j, page.stories[2])

\* C19: a page reached by following next_cursor holds no story with the URL
\* of a story returned on an earlier page.
C19_NoDuplicateOnLaterPage ==
  \A i \in Range(page.stories), j \in page.before :
    stories[i].url # NULL_URL => stories[i].url # stories[j].url

\* The visible rows after the last story of page p (after its cursor when it
\* returned none).
Further(p) ==
  LET n == Len(p.stories)
      last == IF n = 0 THEN p.cursor
              ELSE << stories[p.stories[n]].time, p.stories[n] >>
  IN {i \in DOMAIN stories : /\ Visible(dismissed, read_later, FALSE, FALSE, i)
                             /\ PastCursor(stories, p.sort, last, i)}

\* C20: has_more is true exactly when a further eligible row exists after the
\* last returned story: true when a row follows whose URL was not returned
\* yet, false when no visible row follows at all.
C20_HasMoreExact ==
  page.limit > 0 =>
    LET fresh == {i \in Further(page) :
                    \/ stories[i].url = NULL_URL
                    \/ \A j \in page.before \cup Range(page.stories) :
                         stories[j].url # stories[i].url}
    IN /\ fresh # {} => page.has_more
       /\ page.has_more => Further(page) # {}

\* ------------------------------------------------ properties: ingestion
\* C21: a step in which POST /api/fetch starts an ingestion is taken only
\* when no ingestion is running.
C21_FetchRefusedWhileRunning ==
  [][ (fetch_pc["api"] = "idle" /\ fetch_pc'["api"] # "idle")
        => \A f \in Fetchers : fetch_pc[f] = "idle" ]_vars

C23_NoClaimUnderGate ==
  [][ (\E w \in Workers : pc[w] = "top" /\ pc'[w] = "claimed")
        => (cf_rate_limit_left = 0 /\ cf_quota_left = 0) ]_vars

\* A gate is set, a story is waiting to be claimed and a worker is at the top
\* of its loop with the event loop free.
C23_Witness ==
  /\ cf_rate_limit_left > 0 \/ cf_quota_left > 0
  /\ ClaimCandidates(stories) # {}
  /\ running = NoTask
  /\ \E w \in Workers : pc[w] = "top"

\* ----------------------------------------------- properties: the cleanup
\* A step in which cleanup_stuck_content_jobs runs: at startup, or in worker
\* 1's twelfth idle loop in a row.
CleanupRuns ==
  \/ Startup
  \/ WorkerIdle(1) /\ idle_iterations + 1 >= IDLE_CLEANUP_ITERATIONS

\* C24: right after cleanup_stuck_content_jobs no story is `fetching`, no
\* story without URL and no story with MAX_RETRIES attempts is in a
\* non-terminal status, every story that was terminal is as it was, and a
\* second run would change nothing and return 0.
C24_CleanupPostcondition ==
  [][ CleanupRuns =>
        /\ DOMAIN stories' = DOMAIN stories
        /\ \A i \in DOMAIN stories :
             /\ stories'[i].content_status # "fetching"
             /\ stories'[i].url = NULL_URL => stories'[i].content_status \in Terminal
             /\ stories'[i].content_attempts >= MAX_RETRIES
                  => stories'[i].content_status \in Terminal
             /\ stories[i].content_status \in Terminal => stories'[i] = stories[i]
        /\ cleanup_stuck_content_jobs(stories') = stories'
        /\ total_fixed(stories') = 0 ]_vars

\* Startup has just run the cleanup over a store that held a claimed story
\* without URL and an exhausted one: the first is skipped, the second failed.
C24_Witness ==
  /\ running = NoTask
  /\ \A w \in Workers : pc[w] = "top" /\ job[w] = NoJob
  /\ idle_iterations = 0 /\ fetched_urls = << >>
  /\ \E i, j \in DOMAIN stories :
       /\ stories[i].url = NULL_URL /\ stories[i].content_status = "skipped"
       /\ stories[i].content_attempts = 1
       /\ stories[j].url # NULL_URL /\ stories[j].content_status = "failed"
       /\ stories[j].content_attempts = MAX_RETRIES

CacheHitBy(w) ==
  /\ pc[w] = "claimed" /\ pc'[w] # "claimed"
  /\ job[w].url \in DOMAIN fetched_urls

\* C26: on a cache hit the story becomes `done` with the cached content and
\* source; the worker is back at the top of its loop without having called
\* the renderer, the domain limiter and the usage log are as they were.
C26_CacheHitFrame ==
  [][ \A w \in Workers : CacheHitBy(w) =>
        LET id == job[w].id
            cached == fetched_urls[job[w].url]
        IN /\ stories'[id].content_status = "done"
           /\ decompress_content(stories'[id].content) = cached.content
           /\ stories'[id].content_source = cached.source
           /\ pc'[w] = "top"
           /\ UNCHANGED << limiterVars, usage_log, fetched_urls, gateVars >> ]_vars

\* A story was completed from the cache while the domain had been requested
\* less than DOMAIN_REQUEST_DELAY ago: the story is done, and the usage log
\* holds the one row of the call that filled the cache.
C26_Witness ==
  \E i, j \in DOMAIN stories :
    /\ i # j /\ stories[i].url = stories[j].url
    /\ stories[i].content_status = "done" /\ stories[j].content_status = "done"
    /\ BagCardinality(usage_log) = 1
    /\ since_last_request[stories[i].domain] < DOMAIN_REQUEST_DELAY

\* C27: a story completed from the URL cache has browser_ms = 0, whatever
\* the cache entry recorded.
C27_CacheHitBillsNothing ==
  [][ \A w \in Workers : CacheHitBy(w) => stories'[job[w].id].browser_ms = 0 ]_vars

\* ------------------------------------------- properties: error handling
\* C28: when a worker is through with a job, whatever the branch and
\* whatever raised on the way, the story is not `fetching` any more.
C28_HandledJobLeavesFetching ==
  [][ \A w \in Workers :
        (job[w] # NoJob /\ job'[w] = NoJob /\ job[w].id \in DOMAIN stories')
          => stories'[job[w].id].content_status # "fetching" ]_vars

\* ------------------------------------------------ properties: front page
\* The 1-indexed place of id among the first FRONT_PAGE_SIZE entries of t
\* (0 if it is not among them).
PlaceIn(t, id) ==
  LET places == {k \in 1..Len(t) : k <= FRONT_PAGE_SIZE /\ t[k] = id}
  IN IF places = {} THEN 0 ELSE CHOOSE k \in places : \A m \in places : k <= m

\* C29: a poll with topstories t creates and deletes no row; a story among
\* the first FRONT_PAGE_SIZE ids of t gets hit_front_page = 1 and the smaller
\* of its rank (none counting as infinite) and its place in t; every other
\* story is unchanged; so the flag is never reset and the rank never grows.
C29_FrontPageUpdate ==
  [][ \A t \in DeepLists(Ids) :
        stories' = update_front_page_stories(stories, t) =>
          /\ DOMAIN stories' = DOMAIN stories
          /\ \A i \in DOMAIN stories :
               LET old == stories[i]
                   new == stories'[i]
                   place == PlaceIn(t, i)
               IN /\ place = 0 => new = old
                  /\ place > 0 =>
                       /\ new.hit_front_page = 1
                       /\ new.front_page_rank =
                            IF old.front_page_rank = NULL_RANK \/ place < old.front_page_rank
                            THEN place ELSE old.front_page_rank
                       /\ new = [old EXCEPT !.hit_front_page = new.hit_front_page,
                                            !.front_page_rank = new.front_page_rank]
                  /\ new.hit_front_page >= old.hit_front_page
                  /\ old.front_page_rank # NULL_RANK =>
                       /\ new.front_page_rank # NULL_RANK
                       /\ new.front_page_rank <= old.front_page_rank ]_vars

\* One story has got the last place of the front page; the other one, just
\* behind it in topstories or absent from it, has never been marked.
C29_Witness ==
  \E i, j \in DOMAIN stories :
    /\ stories[i].hit_front_page = 1 /\ stories[i].front_page_rank = FRONT_PAGE_SIZE
    /\ stories[j].hit_front_page = 0 /\ stories[j].front_page_rank = NULL_RANK

\* ------------------------------------------------- properties: retention
\* Story i was dismissed more than CLEANUP_DISMISSED_HOURS ago.
DismissedLongAgo(i) ==
  i \in DOMAIN dismissed /\ (today - dismissed[i]) * HoursPerDay > CLEANUP_DISMISSED_HOURS

\* Story i is older than CLEANUP_STORY_DAYS, not saved and not dismissed.
OldAndUnkept(i) ==
  /\ today - stories[i].time > CLEANUP_STORY_DAYS
  /\ i \notin read_later /\ i \notin DOMAIN dismissed

LoggedIn(log, m) == {r \in BagToSet(log) : MonthOf(r.created_at) = m}
Requests(summary, log, m) ==
  CountRows(log, LoggedIn(log, m))
    + (IF m \in DOMAIN summary THEN summary[m].request_count ELSE 0)
BilledMs(summary, log, m) ==
  SumMs(log, LoggedIn(log, m))
    + (IF m \in DOMAIN summary THEN summary[m].total_browser_ms ELSE 0)

\* C31: a cleanup pass removes from the usage log exactly the rows older than
\* the cutoff (six 30-day months before the first of the current month) and
\* leaves for every month the requests and the billed ms of log and summary
\* together as they were: each row is counted once, added to the summary row
\* its month may already have.
C31_UsageConserved ==
  [][ cleanup_stories =>
        LET cutoff == MonthStart(today) - USAGE_LOG_DAYS
        IN /\ \A r \in BagToSet(usage_log) :
                CopiesIn(r, usage_log') = IF r.created_at < cutoff THEN 0
                                          ELSE CopiesIn(r, usage_log)
           /\ BagToSet(usage_log') \subseteq BagToSet(usage_log)
           /\ \A m \in 0..MaxMonths :
                /\ Requests(usage_summary', usage_log', m)
                     = Requests(usage_summary, usage_log, m)
                /\ BilledMs(usage_summary', usage_log', m)
                     = BilledMs(usage_summary, usage_log, m) ]_vars

\* The first days of a month have been summarized while a later row of the
\* same month is still in the log: the next pass past its cutoff adds it to
\* the summary row that exists.
C31_Witness ==
  \E r \in BagToSet(usage_log) :
    /\ MonthOf(r.created_at) \in DOMAIN usage_summary
    /\ usage_summary[MonthOf(r.created_at)].request_count = MaxLogged - 1

\* ------------------------------------------------ properties: backups
\* C32: in the rotation loop of a backup, a file older than its slot's max
\* age ends in the next slot and is gone from its own (gone altogether from
\* the last slot), and a file within its slot's max age is still in its slot
\* when the loop is over. Files are told apart by their age.
C32_RotationPass ==
  [][ backup_rotate(TRUE, FALSE) =>
        \A i \in 1..Len(all_slots) :
          LET age == backup_dir.slot[i] IN
          age # NoFile =>
            IF age > all_slots[i].max_age
            THEN /\ rotated'.slot[i] # age
                 /\ i < Len(all_slots) => rotated'.slot[i + 1] = age
            ELSE rotated'.slot[i] = age ]_vars

\* C33: a successful backup ends with the fresh backup in the 1h slot and no
\* backup-new.db; a backup that was in the 2h slot after the rotation loop is
\* still there, the 1h backup going to the 2h slot only when that slot is
\* free and the backup at least an hour old.
C33_NewBackupPlaced ==
  [][ backup_rotate(TRUE, FALSE) =>
        LET old_1h == rotated'.slot[1]
            old_2h == rotated'.slot[2]
        IN /\ backup_dir'.slot[1] = 0
           /\ backup_dir'.new = NoFile
           /\ old_2h # NoFile => backup_dir'.slot[2] = old_2h
           /\ (old_1h # NoFile /\ backup_dir'.slot[2] = old_1h)
                => (old_2h = NoFile /\ old_1h >= 1) ]_vars

\* ----------------------------------- properties: compression of old content
\* C34: in a migration every row whose verification fails is counted as one
\* error: the errors counted never exceed the rows that fail verification.
C34_OneErrorPerRow ==
  migration.errors <= Cardinality(migration.unverifiable)

\* ------------------------------------------------------ properties: reset
\* C35: a run with --reset succeeds and leaves the stories, the URL cache,
\* the usage log, the dismissed markers and the history empty.
C35_ResetEmpties ==
  [][ Reset => /\ reset' = "done"
               /\ stories' = << >>
               /\ fetched_urls' = << >>
               /\ usage_log' = EmptyBag
               /\ dismissed' = << >>
               /\ history' = {} ]_vars

\* ------------------------------------------- properties: primary source
\* C36: after an ingestion pass that the primary source reported as
\* successful, every story the source holds with since_time < time <= now is
\* in the store.
C36_PassIsComplete ==
  [][ (\E fail_at \in 0..MaxRequests : \E fallback \in SUBSET (1..NumHeld) :
         FetchPass(fail_at, fallback))
      /\ feed'.pass = "ok"
      => \A i \in DOMAIN feed.held :
           (feed'.since < feed.held[i] /\ feed.held[i] <= feed'.now)
             => i \in DOMAIN stories' ]_vars

\* ------------------------------------------ properties: terminal status
\* C37: once a story's content_status is done, failed, blocked or skipped,
\* no step changes that status.
C37_TerminalIsFinal ==
  [][ \A i \in DOMAIN stories \cap DOMAIN stories' :
        stories[i].content_status \in {"done", "failed", "blocked", "skipped"}
          => stories'[i].content_status = stories[i].content_status ]_vars

\* ------------------------------------------- properties: queue drained
Settled(i) == stories[i].content_status \in Terminal

\* A story left in retry with all its attempts used, held by no worker.
LeftInRetry(i) ==
  /\ i \in DOMAIN stories
  /\ stories[i].content_status = "retry"
  /\ stories[i].content_attempts = MAX_RETRIES
  /\ \A w \in Workers : job[w].id # i

\* C38: with the stories fixed, every story with a URL is in the end, and for
\* good, done, failed, blocked or skipped; a story left in retry with all its
\* attempts used stays as it is until a step marks it failed, and only the
\* stuck-job cleanup of the idle worker 1 (or of the startup) does.
C38_EveryStorySettles ==
  /\ <>[](\A i \in DOMAIN stories : stories[i].url # NULL_URL => Settled(i))
  /\ [][ \A i \in Ids :
           (LeftInRetry(i) /\ stories'[i] # stories[i])
             => /\ stories'[i] = [stories[i] EXCEPT !.content_status = "failed"]
                /\ running = Lifespan \/ (pc[1] = "idle" /\ pc'[1] = "top") ]_vars

\* A story is left in retry after its last attempt and no worker holds it.
C38_Witness ==
  /\ running = NoTask
  /\ \A w \in Workers : job[w] = NoJob
  /\ \E i \in DOMAIN stories :
       stories[i].content_status = "retry" /\ stories[i].content_attempts = MAX_RETRIES

\* ------------------------------------------ properties: renderer backoff
\* C39: the deadline cf_rate_limit_until never moves backwards: the time left
\* to it gets shorter only by the passing of time, a second per second.
C39_DeadlineNeverEarlier ==
  [][ \/ cf_rate_limit_left' >= cf_rate_limit_left
      \/ /\ midnight_in' # midnight_in
         /\ cf_rate_limit_left' = cf_rate_limit_left - 1 ]_vars

\* ------------------------------------------------ properties: paging
\* The stories a listing in order `sort` owes the reader: the visible rows
\* that are no duplicate of a visible row of the same URL sorting before them.
Owed(sort) ==
  {i \in DOMAIN stories :
     /\ Visible(dismissed, read_later, FALSE, FALSE, i)
     /\ \/ stories[i].url = NULL_URL
        \/ ~\E j \in DOMAIN stories :
              /\ Visible(dismissed, read_later, FALSE, FALSE, j)
              /\ stories[j].url = stories[i].url
              /\ Precedes(stories, sort, j, i)}

\* C40: following next_cursor from the first page, no story id is returned
\* twice, and when next_cursor is absent every eligible story has been
\* returned, for every limit and both sort orders (each call returns, so its
\* over-fetch loop ends).
C40_PaginationComplete ==
  page.limit > 0 =>
    /\ \A a, b \in DOMAIN page.stories : a # b => page.stories[a] # page.stories[b]
    /\ Range(page.stories) \cap page.before = {}
    /\ page.next_cursor = NULL =>
         Owed(page.sort) \subseteq page.before \cup Range(page.stories)

\* The last page of a listing of more than one page, which left out a
\* dismissed story, a saved story and a duplicate.
C40_Witness ==
  /\ page.limit > 0 /\ page.next_cursor = NULL
  /\ page.before # {} /\ page.stories # << >>
  /\ DOMAIN dismissed \cap DOMAIN stories # {}
  /\ read_later # {}
  /\ \E i \in DOMAIN stories :
       /\ Visible(dismissed, read_later, FALSE, FALSE, i)
       /\ i \notin Owed(page.sort)
       /\ i \notin page.before \cup Range(page.stories)

====
